---- MODULE Spec2Model ----
(***************************************************************************)
(* Service-discovery registry: the in-memory repository (MemoryRepository, *)
(* a map of *Service guarded by a sync.RWMutex) and the HTTP handlers that *)
(* use it.  Records live on a heap and the map holds their addresses, as   *)
(* the Go code holds *domain.Service pointers.                             *)
(***************************************************************************)
EXTENDS Integers, Sequences, FiniteSets, TLC

VARIABLES
    services,   \* MemoryRepository.services: a map from id to address
    heap,       \* allocated *domain.Service values, address = index
    writer,     \* goroutine holding mu.Lock (0: none)
    readers,    \* goroutines holding mu.RLock
    spc,        \* position of each goroutine inside a repository method
    op,         \* the repository call a goroutine is executing
    exists,     \* the local `exists` of Create / Update / Delete
    ret,        \* the value the last repository call returned
    held,       \* the *Service a caller keeps in a local variable
    pc,         \* position of each goroutine inside an HTTP handler
    handler,    \* the handler a goroutine runs (or ran last)
    req,        \* the bound request (path id and JSON body)
    mergeIdx,   \* next field of ServiceHandler.Update's merge
    resp,       \* the HTTP response written by the handler
    now,        \* the wall clock read by time.Now()
    nextUUID,   \* number of uuid.New() calls so far
    calls,      \* number of calls / requests started so far
    live,       \* history: successful Creates minus successful Deletes, per id
    issued,     \* history: ids answered by earlier 201 responses
    fetched,    \* history: the record as Update found it when it fetched it
    stamp,      \* Heartbeat: the value of time.Now() about to be stored
    budget,     \* number of calls / requests the callers of this run make
    client,     \* the servicediscovery.Client and the call it is executing
    builder     \* the config.Builder and the calls chained on it

vars == <<services, heap, writer, readers, spc, op, exists, ret, held, pc,
          handler, req, mergeIdx, resp, now, nextUUID, calls, budget, client, builder, live, issued, fetched, stamp>>

apiVars == <<pc, handler, req, mergeIdx, resp, nextUUID, issued, fetched, stamp>>
\* what no step inside a repository method touches
outsideRepo == <<held, now, calls, budget, client, builder, pc, handler, req, mergeIdx, resp, nextUUID, issued,
                 fetched, stamp>>

(* ------------------------------ bounds -------------------------------- *)
NumProcs == 2
MaxCalls == 3
MaxClock == 1

Procs == 1..NumProcs
\* the ids the repository tests use
Ids == {"1", "2"}

(* ------------------------- domain (part_004) -------------------------- *)
StatusHealthy == "healthy"
StatusUnhealthy == "unhealthy"

NilColl == [nil |-> TRUE, elems |-> <<>>]
Coll(s) == [nil |-> FALSE, elems |-> s]

ErrServiceNotFound == "service not found"
ErrServiceAlreadyExists == "service already exists"
NoErr == "nil"

NoOp == [name |-> "none", id |-> "", ptr |-> 0]
NoRet == [err |-> NoErr, ptr |-> 0, all |-> {}, ok |-> FALSE]

\* createTestService(id, name) of the repository tests
createTestService(id, name, t1, t2) ==
    [id |-> id, name |-> name, host |-> "localhost", port |-> 8080,
     protocol |-> "http", basePath |-> "", routes |-> NilColl,
     healthCheck |-> "", tags |-> NilColl, metadata |-> NilColl,
     status |-> StatusHealthy, lastHeartbeat |-> t1, registeredAt |-> t2]

(* ------------------------------ Go maps ------------------------------- *)
\* an assignment that replaces the map instead of adding to it
MapPutAlone(m, k, v) == [x \in {k} |-> v]
\* m[k] = v
MapPut(m, k, v) == [x \in DOMAIN m \cup {k} |-> IF x = k THEN v ELSE m[x]]
\* a delete that removes nothing
MapDeleteNothing(m, k) == m
\* delete(m, k)
MapDelete(m, k) == [x \in DOMAIN m \ {k} |-> m[x]]

(* ------------------------ views of the store -------------------------- *)
Live(id) == IF id \in DOMAIN live THEN live[id] ELSE 0
Present == DOMAIN services
\* what GetByID(id) lets a caller see, for every id
StoreContent == [i \in Present |-> heap[services[i]]]

(* ----------------------------- RWMutex -------------------------------- *)
\* Lock() that does not wait for another writer to leave
CanLockIgnoringWriter(p) == readers = {}
CanLock(p) == writer = 0 /\ readers = {}
\* RLock() that does not wait for the writer to leave
CanRLockIgnoringWriter(p) == TRUE
CanRLock(p) == writer = 0

\* an Unlock() placed after the error return instead of deferred
UnlockOnSuccessOnly(p, err) ==
    /\ writer' = IF err = NoErr THEN 0 ELSE writer
    /\ readers' = readers
\* the deferred r.mu.Unlock() / r.mu.RUnlock(), run on every return path
Unlock(p, err) == writer' = 0 /\ readers' = readers
RUnlock(p, err) == readers' = readers \ {p} /\ writer' = writer

InWriteSection(p) == spc[p] \in {"Check", "Write"}
InReadSection(p) == spc[p] = "Read"

(* ------------------------- MemoryRepository --------------------------- *)
\* r.mu.Lock() of Create, Update, Delete
Lock(p) ==
    /\ spc[p] = "Lock"
    /\ CanLock(p)
    /\ writer' = p
    /\ spc' = [spc EXCEPT ![p] = "Check"]
    /\ UNCHANGED <<services, heap, readers, op, exists, ret, live>>
    /\ UNCHANGED outsideRepo

\* r.mu.RLock() of GetByID, GetAll, Exists
RLock(p) ==
    /\ spc[p] = "RLock"
    /\ CanRLock(p)
    /\ readers' = readers \cup {p}
    /\ spc' = [spc EXCEPT ![p] = "Read"]
    /\ UNCHANGED <<services, heap, writer, op, exists, ret, live>>
    /\ UNCHANGED outsideRepo

\* `_, exists := r.services[service.ID]` (the id is read through the pointer)
OpId(p) == IF op[p].name \in {"Create", "Update"} THEN heap[op[p].ptr].id ELSE op[p].id

Check(p) ==
    /\ spc[p] = "Check"
    /\ exists' = [exists EXCEPT ![p] = OpId(p) \in Present]
    /\ spc' = [spc EXCEPT ![p] = "Write"]
    /\ UNCHANGED <<services, heap, writer, readers, op, ret, live>>
    /\ UNCHANGED outsideRepo

\* Create without the duplicate check
CreateNeverFails(p) == FALSE
CreateFails(p) == exists[p]
\* Update that inserts a missing record
UpdateNeverFails(p) == FALSE
UpdateFails(p) == ~exists[p]
\* Delete that answers nil for a missing id
DeleteNeverFails(p) == FALSE
DeleteFails(p) == ~exists[p]

Create(p) ==
    /\ spc[p] = "Write" /\ op[p].name = "Create"
    /\ IF CreateFails(p)
       THEN /\ ret' = [ret EXCEPT ![p] = [NoRet EXCEPT !.err = ErrServiceAlreadyExists]]
            /\ Unlock(p, ErrServiceAlreadyExists)
            /\ UNCHANGED <<services, live>>
       ELSE /\ services' = MapPut(services, OpId(p), op[p].ptr)
            /\ ret' = [ret EXCEPT ![p] = NoRet]
            /\ Unlock(p, NoErr)
            /\ live' = MapPut(live, OpId(p), Live(OpId(p)) + 1)
    /\ spc' = [spc EXCEPT ![p] = "Done"]
    /\ UNCHANGED <<heap, op, exists>>
    /\ UNCHANGED outsideRepo

Update(p) ==
    /\ spc[p] = "Write" /\ op[p].name = "Update"
    /\ IF UpdateFails(p)
       THEN /\ ret' = [ret EXCEPT ![p] = [NoRet EXCEPT !.err = ErrServiceNotFound]]
            /\ Unlock(p, ErrServiceNotFound)
            /\ UNCHANGED services
       ELSE /\ services' = MapPut(services, OpId(p), op[p].ptr)
            /\ ret' = [ret EXCEPT ![p] = NoRet]
            /\ Unlock(p, NoErr)
    /\ spc' = [spc EXCEPT ![p] = "Done"]
    /\ UNCHANGED <<heap, op, exists, live>>
    /\ UNCHANGED outsideRepo

Delete(p) ==
    /\ spc[p] = "Write" /\ op[p].name = "Delete"
    /\ IF DeleteFails(p)
       THEN /\ ret' = [ret EXCEPT ![p] = [NoRet EXCEPT !.err = ErrServiceNotFound]]
            /\ Unlock(p, ErrServiceNotFound)
            /\ UNCHANGED <<services, live>>
       ELSE /\ services' = MapDelete(services, op[p].id)
            /\ ret' = [ret EXCEPT ![p] = NoRet]
            /\ Unlock(p, NoErr)
            /\ live' = MapPut(live, op[p].id, Live(op[p].id) - 1)
    /\ spc' = [spc EXCEPT ![p] = "Done"]
    /\ UNCHANGED <<heap, op, exists>>
    /\ UNCHANGED outsideRepo

GetByID(p) ==
    /\ spc[p] = "Read" /\ op[p].name = "GetByID"
    /\ IF op[p].id \in Present
       THEN /\ ret' = [ret EXCEPT ![p] = [NoRet EXCEPT !.ptr = services[op[p].id]]]
            /\ RUnlock(p, NoErr)
       ELSE /\ ret' = [ret EXCEPT ![p] = [NoRet EXCEPT !.err = ErrServiceNotFound]]
            /\ RUnlock(p, ErrServiceNotFound)
    /\ spc' = [spc EXCEPT ![p] = "Done"]
    /\ UNCHANGED <<services, heap, op, exists, live>>
    /\ UNCHANGED outsideRepo

GetAll(p) ==
    /\ spc[p] = "Read" /\ op[p].name = "GetAll"
    /\ ret' = [ret EXCEPT ![p] = [NoRet EXCEPT !.all = {services[i] : i \in Present}]]
    /\ RUnlock(p, NoErr)
    /\ spc' = [spc EXCEPT ![p] = "Done"]
    /\ UNCHANGED <<services, heap, op, exists, live>>
    /\ UNCHANGED outsideRepo

Exists(p) ==
    /\ spc[p] = "Read" /\ op[p].name = "Exists"
    /\ ret' = [ret EXCEPT ![p] = [NoRet EXCEPT !.ok = op[p].id \in Present]]
    /\ RUnlock(p, NoErr)
    /\ spc' = [spc EXCEPT ![p] = "Done"]
    /\ UNCHANGED <<services, heap, op, exists, live>>
    /\ UNCHANGED outsideRepo

\* entering a repository method
Enter(p, name, id, ptr) ==
    /\ op' = [op EXCEPT ![p] = [name |-> name, id |-> id, ptr |-> ptr]]
    /\ spc' = [spc EXCEPT ![p] =
                 IF name \in {"Create", "Update", "Delete"} THEN "Lock" ELSE "RLock"]

\* one more call of a test, or one more HTTP request, is started
Start == calls < budget /\ calls' = calls + 1 /\ UNCHANGED <<budget, client, builder>>

(* ----------------- callers of the repository (its tests) --------------- *)
TestNames == {"service"}

\* repo.Create(createTestService(id, name))
TestCreate(p, id, name) ==
    /\ spc[p] = "Idle"
    /\ Start
    /\ heap' = Append(heap, createTestService(id, name, now, now))
    /\ Enter(p, "Create", "", Len(heap) + 1)
    /\ UNCHANGED <<services, writer, readers, exists, ret, held, live>>
    /\ UNCHANGED <<now, apiVars>>

\* repo.Update(service) with a record the caller holds
TestUpdate(p) ==
    /\ spc[p] = "Idle"
    /\ Start
    /\ held[p] # 0
    /\ Enter(p, "Update", "", held[p])
    /\ UNCHANGED <<services, heap, writer, readers, exists, ret, held, live>>
    /\ UNCHANGED <<now, apiVars>>

\* repo.Update(createTestService(id, "updated"))
TestUpdateNew(p, id) ==
    /\ spc[p] = "Idle"
    /\ Start
    /\ heap' = Append(heap, createTestService(id, "updated", now, now))
    /\ Enter(p, "Update", "", Len(heap) + 1)
    /\ UNCHANGED <<services, writer, readers, exists, ret, held, live>>
    /\ UNCHANGED <<now, apiVars>>

\* repo.GetByID(id), repo.Delete(id), repo.Exists(id), repo.GetAll()
TestCall(p, name, id) ==
    /\ spc[p] = "Idle"
    /\ Start
    /\ Enter(p, name, id, 0)
    /\ UNCHANGED <<services, heap, writer, readers, exists, ret, held, live>>
    /\ UNCHANGED <<now, apiVars>>

\* service.Name = "updated-service"; service.Port = 9090
TestMutate(p) ==
    /\ spc[p] = "Idle"
    /\ held[p] # 0
    /\ heap' = [heap EXCEPT ![held[p]].name = "updated-service", ![held[p]].port = 9090]
    /\ UNCHANGED <<services, writer, readers, spc, op, exists, ret, held, calls, budget, client, builder, live>>
    /\ UNCHANGED <<now, apiVars>>

\* the call returns and the caller drops what it passed and what it got
TestReturn(p) ==
    /\ spc[p] = "Done"
    /\ spc' = [spc EXCEPT ![p] = "Idle"]
    /\ op' = [op EXCEPT ![p] = NoOp]
    /\ exists' = [exists EXCEPT ![p] = FALSE]
    /\ ret' = [ret EXCEPT ![p] = NoRet]
    /\ UNCHANGED <<services, heap, writer, readers, held, calls, budget, client, builder, live>>
    /\ UNCHANGED <<now, apiVars>>

\* the call returns and the caller keeps the record: `service` after
\* repo.Create(service), `result` after `result, _ := repo.GetByID("1")`
TestKeep(p) ==
    /\ spc[p] = "Done"
    /\ \/ op[p].name \in {"Create", "Update"}
          /\ held' = [held EXCEPT ![p] = op[p].ptr]
       \/ op[p].name = "GetByID" /\ ret[p].err = NoErr
          /\ held' = [held EXCEPT ![p] = ret[p].ptr]
    /\ spc' = [spc EXCEPT ![p] = "Idle"]
    /\ op' = [op EXCEPT ![p] = NoOp]
    /\ exists' = [exists EXCEPT ![p] = FALSE]
    /\ ret' = [ret EXCEPT ![p] = NoRet]
    /\ UNCHANGED <<services, heap, writer, readers, calls, budget, client, builder, live>>
    /\ UNCHANGED <<now, apiVars>>

\* no servicediscovery.Client exists
NoClient == [pc |-> "none"]
NoBuilder == [pc |-> "none"]

(* ---------------------- requests and responses ------------------------ *)
\* a RegisterServiceRequest / UpdateServiceRequest after JSON decoding: a field
\* absent from the body holds its zero value
ZeroBody ==
    [name |-> "", host |-> "", port |-> 0, protocol |-> "", basePath |-> "",
     routes |-> NilColl, healthCheck |-> "", tags |-> NilColl, metadata |-> NilColl]
NoReq == [id |-> "", body |-> ZeroBody]

\* the zero domain.Service
ZeroService ==
    [id |-> "", name |-> "", host |-> "", port |-> 0, protocol |-> "",
     basePath |-> "", routes |-> NilColl, healthCheck |-> "", tags |-> NilColl,
     metadata |-> NilColl, status |-> "", lastHeartbeat |-> 0, registeredAt |-> 0]
NoResp ==
    [status |-> 0, service |-> ZeroService, services |-> {}, count |-> 0,
     lastHeartbeat |-> 0]

StatusOK == 200
StatusCreated == 201
StatusBadRequest == 400
StatusNotFound == 404
StatusInternalServerError == 500
MinPort == 1
MaxPort == 65535

\* binding:"required" without the min=1 of the port
BindRegisterNoMin(b) == b.name # "" /\ b.host # "" /\ b.port # 0 /\ b.port <= MaxPort
\* c.ShouldBindJSON(&req): binding:"required" on Name and Host,
\* binding:"required,min=1,max=65535" on Port
BindRegister(b) ==
    b.name # "" /\ b.host # "" /\ b.port # 0 /\ b.port >= MinPort /\ b.port <= MaxPort

\* binding:"omitempty,min=1" without the max=65535 of the port
BindUpdateNoMax(b) == b.port = 0 \/ b.port >= MinPort
\* c.ShouldBindJSON(&req): binding:"omitempty,min=1,max=65535" on Port
BindUpdate(b) == b.port = 0 \/ (b.port >= MinPort /\ b.port <= MaxPort)

\* an id generator that returns the same id again
NewUUIDRepeated(n) == "uuid-1"
\* uuid.New().String(): a version 4 UUID, taken to differ from every earlier one
NewUUID(n) == "uuid-" \o ToString(n + 1)

\* a NewService that stores protocol and healthCheck as they were sent
NewServiceAsSent(id, b, t1, t2) ==
    [id |-> id, name |-> b.name, host |-> b.host, port |-> b.port,
     protocol |-> b.protocol, basePath |-> b.basePath, routes |-> b.routes,
     healthCheck |-> b.healthCheck, tags |-> b.tags, metadata |-> b.metadata,
     status |-> StatusHealthy, lastHeartbeat |-> t1, registeredAt |-> t2]
\* the &domain.Service{...} literal of Register
NewService(id, b, t1, t2) ==
    [id |-> id, name |-> b.name, host |-> b.host, port |-> b.port,
     protocol |-> IF b.protocol = "" THEN "http" ELSE b.protocol,
     basePath |-> b.basePath, routes |-> b.routes,
     healthCheck |-> IF b.healthCheck = "" THEN "/health" ELSE b.healthCheck,
     tags |-> b.tags, metadata |-> b.metadata, status |-> StatusHealthy,
     lastHeartbeat |-> t1, registeredAt |-> t2]

\* the fields of UpdateServiceRequest, in the order Update tests them
MergeFields ==
    <<"host", "port", "protocol", "basePath", "routes", "healthCheck", "tags", "metadata">>

\* a merge that copies every field of the request, zero or not
ProvidedAlways(b, k) == TRUE
\* `req.Host != ""`, `req.Port != 0`, `req.Routes != nil`, ...
Provided(b, k) ==
    LET f == MergeFields[k] IN
    IF f = "port" THEN b.port # 0
    ELSE IF f \in {"routes", "tags", "metadata"} THEN ~b[f].nil
    ELSE b[f] # ""

\* the fields Update still has to copy into *service
Pending(p) == {k \in mergeIdx[p]..Len(MergeFields) : Provided(req[p].body, k)}
Min(S) == CHOOSE x \in S : \A y \in S : x <= y

(* --------------------------- ServiceHandler --------------------------- *)
\* net/http starts a goroutine for the request; goroutines that serve no
\* request are interchangeable, the first free one is taken
Begin(p, h, id, b) ==
    /\ pc[p] = "idle"
    /\ \A q \in Procs : q < p => pc[q] # "idle"
    /\ Start
    /\ handler' = [handler EXCEPT ![p] = h]
    /\ req' = [req EXCEPT ![p] = [id |-> id, body |-> b]]

\* c.JSON(status, ...) and return
Finish(p, r) ==
    /\ resp' = [resp EXCEPT ![p] = r]
    /\ pc' = [pc EXCEPT ![p] = "idle"]
    /\ spc' = [spc EXCEPT ![p] = "Idle"]
    /\ op' = [op EXCEPT ![p] = NoOp]
    /\ ret' = [ret EXCEPT ![p] = NoRet]
    /\ exists' = [exists EXCEPT ![p] = FALSE]
    /\ held' = [held EXCEPT ![p] = 0]
    /\ mergeIdx' = [mergeIdx EXCEPT ![p] = 0]
    /\ req' = [req EXCEPT ![p] = NoReq]
    /\ fetched' = [fetched EXCEPT ![p] = ZeroService]
    /\ stamp' = [stamp EXCEPT ![p] = 0]

Answer(status) == [NoResp EXCEPT !.status = status]
AnswerService(status, svc) == [NoResp EXCEPT !.status = status, !.service = svc]

\* Register up to h.repo.Create(service); t1 and t2 are what the two calls of
\* time.Now() return
HandleRegister(p, b, t1, t2) ==
    /\ Begin(p, "Register", "", b)
    /\ IF ~BindRegister(b)
       THEN /\ resp' = [resp EXCEPT ![p] = Answer(StatusBadRequest)]
            /\ UNCHANGED <<heap, held, spc, op, pc, now, nextUUID>>
       ELSE /\ heap' = Append(heap, NewService(NewUUID(nextUUID), b, t1, t2))
            /\ now' = t2
            /\ nextUUID' = nextUUID + 1
            /\ held' = [held EXCEPT ![p] = Len(heap) + 1]
            /\ Enter(p, "Create", "", Len(heap) + 1)
            /\ pc' = [pc EXCEPT ![p] = "store"]
            /\ resp' = [resp EXCEPT ![p] = NoResp]
    /\ UNCHANGED <<services, writer, readers, exists, ret, mergeIdx, live, issued, fetched, stamp>>

\* Register after h.repo.Create(service)
RegisterDone(p) ==
    /\ handler[p] = "Register" /\ pc[p] = "store" /\ spc[p] = "Done"
    /\ IF ret[p].err # NoErr
       THEN Finish(p, Answer(StatusInternalServerError)) /\ UNCHANGED issued
       ELSE /\ Finish(p, AnswerService(StatusCreated, heap[held[p]]))
            /\ issued' = issued \cup {heap[held[p]].id}
    /\ UNCHANGED <<services, heap, writer, readers, handler, now, nextUUID, calls, budget, client, builder, live>>

\* Get, Update, Unregister up to h.repo.GetByID(id)
HandleByID(p, h, id, b) ==
    /\ Begin(p, h, id, b)
    /\ Enter(p, "GetByID", id, 0)
    /\ pc' = [pc EXCEPT ![p] = "fetch"]
    /\ resp' = [resp EXCEPT ![p] = NoResp]
    /\ UNCHANGED <<services, heap, writer, readers, exists, ret, held, mergeIdx,
                   now, nextUUID, live, issued, fetched, stamp>>

\* Get after h.repo.GetByID(id): c.JSON serialises *service
GetDone(p) ==
    /\ handler[p] = "Get" /\ pc[p] = "fetch" /\ spc[p] = "Done"
    /\ IF ret[p].err # NoErr
       THEN Finish(p, Answer(StatusNotFound))
       ELSE Finish(p, AnswerService(StatusOK, heap[ret[p].ptr]))
    /\ UNCHANGED <<services, heap, writer, readers, handler, now, nextUUID,
                   calls, budget, client, builder, live, issued>>

\* List up to h.repo.GetAll()
HandleList(p) ==
    /\ Begin(p, "List", "", ZeroBody)
    /\ Enter(p, "GetAll", "", 0)
    /\ pc' = [pc EXCEPT ![p] = "fetch"]
    /\ resp' = [resp EXCEPT ![p] = NoResp]
    /\ UNCHANGED <<services, heap, writer, readers, exists, ret, held, mergeIdx,
                   now, nextUUID, live, issued, fetched, stamp>>

\* List after h.repo.GetAll(): c.JSON serialises every *service of the slice
ListDone(p) ==
    /\ handler[p] = "List" /\ pc[p] = "fetch" /\ spc[p] = "Done"
    /\ Finish(p, [NoResp EXCEPT !.status = StatusOK,
                                !.services = {heap[a] : a \in ret[p].all},
                                !.count = Cardinality(ret[p].all)])
    /\ UNCHANGED <<services, heap, writer, readers, handler, now, nextUUID,
                   calls, budget, client, builder, live, issued>>

\* an Update that binds the body before it looks at the result of GetByID
UpdateFetchedBindFirst(p) ==
    /\ handler[p] = "Update" /\ pc[p] = "fetch" /\ spc[p] = "Done"
    /\ IF ~BindUpdate(req[p].body)
       THEN Finish(p, Answer(StatusBadRequest))
       ELSE IF ret[p].err # NoErr
       THEN Finish(p, Answer(StatusNotFound))
       ELSE /\ held' = [held EXCEPT ![p] = ret[p].ptr]
            /\ pc' = [pc EXCEPT ![p] = "merge"]
            /\ mergeIdx' = [mergeIdx EXCEPT ![p] = 1]
            /\ spc' = [spc EXCEPT ![p] = "Idle"]
            /\ op' = [op EXCEPT ![p] = NoOp]
            /\ ret' = [ret EXCEPT ![p] = NoRet]
            /\ fetched' = [fetched EXCEPT ![p] = heap[ret[p].ptr]]
            /\ UNCHANGED <<resp, exists, req, stamp>>
    /\ UNCHANGED <<services, heap, writer, readers, handler, now, nextUUID,
                   calls, budget, client, builder, live, issued>>

\* Update after h.repo.GetByID(id): the 404, then c.ShouldBindJSON(&req)
UpdateFetched(p) ==
    /\ handler[p] = "Update" /\ pc[p] = "fetch" /\ spc[p] = "Done"
    /\ IF ret[p].err # NoErr
       THEN Finish(p, Answer(StatusNotFound))
       ELSE IF ~BindUpdate(req[p].body)
       THEN Finish(p, Answer(StatusBadRequest))
       ELSE /\ held' = [held EXCEPT ![p] = ret[p].ptr]
            /\ pc' = [pc EXCEPT ![p] = "merge"]
            /\ mergeIdx' = [mergeIdx EXCEPT ![p] = 1]
            /\ spc' = [spc EXCEPT ![p] = "Idle"]
            /\ op' = [op EXCEPT ![p] = NoOp]
            /\ ret' = [ret EXCEPT ![p] = NoRet]
            /\ fetched' = [fetched EXCEPT ![p] = heap[ret[p].ptr]]
            /\ UNCHANGED <<resp, exists, req, stamp>>
    /\ UNCHANGED <<services, heap, writer, readers, handler, now, nextUUID,
                   calls, budget, client, builder, live, issued>>

\* Update: the next `service.F = req.F` through the pointer, outside the
\* lock; with nothing left to copy, h.repo.Update(service)
UpdateMerge(p) ==
    /\ handler[p] = "Update" /\ pc[p] = "merge"
    /\ IF Pending(p) # {}
       THEN LET k == Min(Pending(p)) IN
            /\ heap' = [heap EXCEPT ![held[p]][MergeFields[k]] = req[p].body[MergeFields[k]]]
            /\ mergeIdx' = [mergeIdx EXCEPT ![p] = k + 1]
            /\ UNCHANGED <<spc, op, pc>>
       ELSE /\ Enter(p, "Update", "", held[p])
            /\ pc' = [pc EXCEPT ![p] = "store"]
            /\ UNCHANGED <<heap, mergeIdx>>
    /\ UNCHANGED <<services, writer, readers, exists, ret, held, handler, req, resp,
                   now, nextUUID, calls, budget, client, builder, live, issued, fetched, stamp>>

\* Update after h.repo.Update(service)
UpdateDone(p) ==
    /\ handler[p] = "Update" /\ pc[p] = "store" /\ spc[p] = "Done"
    /\ IF ret[p].err # NoErr
       THEN Finish(p, Answer(StatusInternalServerError))
       ELSE Finish(p, AnswerService(StatusOK, heap[held[p]]))
    /\ UNCHANGED <<services, heap, writer, readers, handler, now, nextUUID,
                   calls, budget, client, builder, live, issued>>

\* Unregister after h.repo.GetByID(id): the 404, else h.repo.Delete(id)
UnregisterFetched(p) ==
    /\ handler[p] = "Unregister" /\ pc[p] = "fetch" /\ spc[p] = "Done"
    /\ IF ret[p].err # NoErr
       THEN Finish(p, Answer(StatusNotFound))
       ELSE /\ Enter(p, "Delete", req[p].id, 0)
            /\ pc' = [pc EXCEPT ![p] = "store"]
            /\ ret' = [ret EXCEPT ![p] = NoRet]
            /\ UNCHANGED <<resp, exists, held, mergeIdx, req, fetched, stamp>>
    /\ UNCHANGED <<services, heap, writer, readers, handler, now, nextUUID,
                   calls, budget, client, builder, live, issued>>

\* Unregister after h.repo.Delete(id)
UnregisterDone(p) ==
    /\ handler[p] = "Unregister" /\ pc[p] = "store" /\ spc[p] = "Done"
    /\ IF ret[p].err # NoErr
       THEN Finish(p, Answer(StatusInternalServerError))
       ELSE Finish(p, Answer(StatusOK))
    /\ UNCHANGED <<services, heap, writer, readers, handler, now, nextUUID,
                   calls, budget, client, builder, live, issued>>

\* a Heartbeat that stamps registeredAt as well
StampedBoth(svc, t) == [svc EXCEPT !.lastHeartbeat = t, !.registeredAt = t]
\* service.LastHeartbeat = <the value time.Now() returned>
Stamped(svc, t) == [svc EXCEPT !.lastHeartbeat = t]

\* a Heartbeat that marks the record unhealthy
HeartbeatStatusUnhealthy == StatusUnhealthy
\* service.Status = domain.StatusHealthy
HeartbeatStatus == StatusHealthy

\* Heartbeat after h.repo.GetByID(id): the 404, else time.Now() is evaluated
\* and returns t
HeartbeatFetched(p, t) ==
    /\ handler[p] = "Heartbeat" /\ pc[p] = "fetch" /\ spc[p] = "Done"
    /\ IF ret[p].err # NoErr
       THEN Finish(p, Answer(StatusNotFound)) /\ UNCHANGED now
       ELSE /\ held' = [held EXCEPT ![p] = ret[p].ptr]
            /\ stamp' = [stamp EXCEPT ![p] = t]
            /\ now' = t
            /\ pc' = [pc EXCEPT ![p] = "stamp"]
            /\ spc' = [spc EXCEPT ![p] = "Idle"]
            /\ op' = [op EXCEPT ![p] = NoOp]
            /\ ret' = [ret EXCEPT ![p] = NoRet]
            /\ UNCHANGED <<resp, exists, req, mergeIdx, fetched>>
    /\ UNCHANGED <<services, heap, writer, readers, handler, nextUUID,
                   calls, budget, client, builder, live, issued>>

\* Heartbeat: the value is stored into service.LastHeartbeat through the
\* pointer, outside the lock
HeartbeatStamp(p) ==
    /\ handler[p] = "Heartbeat" /\ pc[p] = "stamp"
    /\ heap' = [heap EXCEPT ![held[p]] = Stamped(@, stamp[p])]
    /\ pc' = [pc EXCEPT ![p] = "status"]
    /\ UNCHANGED <<services, writer, readers, spc, op, exists, ret, held, handler, req,
                   mergeIdx, resp, now, nextUUID, calls, budget, client, builder, live, issued,
                   fetched, stamp>>

\* Heartbeat: service.Status is stored, then h.repo.Update(service)
HeartbeatMark(p) ==
    /\ handler[p] = "Heartbeat" /\ pc[p] = "status"
    /\ heap' = [heap EXCEPT ![held[p]].status = HeartbeatStatus]
    /\ Enter(p, "Update", "", held[p])
    /\ pc' = [pc EXCEPT ![p] = "store"]
    /\ UNCHANGED <<services, writer, readers, exists, ret, held, handler, req,
                   mergeIdx, resp, now, nextUUID, calls, budget, client, builder, live, issued,
                   fetched, stamp>>

\* Heartbeat after h.repo.Update(service): the response reads
\* service.LastHeartbeat again
HeartbeatDone(p) ==
    /\ handler[p] = "Heartbeat" /\ pc[p] = "store" /\ spc[p] = "Done"
    /\ IF ret[p].err # NoErr
       THEN Finish(p, Answer(StatusInternalServerError))
       ELSE Finish(p, [NoResp EXCEPT !.status = StatusOK,
                                     !.lastHeartbeat = heap[held[p]].lastHeartbeat])
    /\ UNCHANGED <<services, heap, writer, readers, handler, now, nextUUID,
                   calls, budget, client, builder, live, issued>>

\* time passes between two readings of time.Now()
Tick ==
    /\ now < MaxClock
    /\ now' = now + 1
    /\ UNCHANGED <<services, heap, writer, readers, spc, op, exists, ret, held, pc,
                   handler, req, mergeIdx, resp, nextUUID, calls, budget, client, builder, live, issued, fetched, stamp>>

(* -------------------------- HTTP clients ------------------------------ *)
\* bodies of POST /services/register
RegisterBodies ==
    {[ZeroBody EXCEPT !.name = "test-service", !.host = "localhost", !.port = pt] :
        pt \in {-1, 0, 3000, 65536}}
    \cup {[ZeroBody EXCEPT !.name = "", !.host = "localhost", !.port = 3000],
          [ZeroBody EXCEPT !.name = "test-service", !.host = "", !.port = 3000],
          [ZeroBody EXCEPT !.name = "test"]}

\* bodies of PUT /services/:id/update
UpdateBodies ==
    {[ZeroBody EXCEPT !.host = h, !.port = pt] :
        h \in {"", "127.0.0.1"}, pt \in {0, 5000, 65536}}

\* the ids a client puts in the path: one it was given, or one nobody has
PathIds == DOMAIN services \cup issued \cup {"non-existent-id"}

(* ------------------------------ Init ---------------------------------- *)
\* NewMemoryRepository(), no request in progress, a client not yet built
NewRegistry ==
    /\ services = <<>>
    /\ heap = <<>>
    /\ writer = 0
    /\ readers = {}
    /\ spc = [p \in Procs |-> "Idle"]
    /\ op = [p \in Procs |-> NoOp]
    /\ exists = [p \in Procs |-> FALSE]
    /\ ret = [p \in Procs |-> NoRet]
    /\ held = [p \in Procs |-> 0]
    /\ pc = [p \in Procs |-> "idle"]
    /\ handler = [p \in Procs |-> "none"]
    /\ req = [p \in Procs |-> NoReq]
    /\ mergeIdx = [p \in Procs |-> 0]
    /\ resp = [p \in Procs |-> NoResp]
    /\ now = 0
    /\ nextUUID = 0
    /\ calls = 0
    /\ live = <<>>
    /\ issued = {}
    /\ fetched = [p \in Procs |-> ZeroService]
    /\ stamp = [p \in Procs |-> 0]
    /\ client = NoClient
    /\ builder = NoBuilder

Init == NewRegistry /\ budget = MaxCalls

(* ------------- Spec: goroutines calling the repository ---------------- *)
Next ==
    \E p \in Procs :
        \/ Lock(p)
        \/ RLock(p)
        \/ Check(p)
        \/ Create(p)
        \/ Update(p)
        \/ Delete(p)
        \/ GetByID(p)
        \/ GetAll(p)
        \/ Exists(p)
        \/ \E id \in Ids, name \in TestNames : TestCreate(p, id, name)
        \/ \E id \in Ids : TestUpdateNew(p, id)
        \/ \E name \in {"GetByID", "Delete", "Exists"}, id \in Ids : TestCall(p, name, id)
        \/ TestCall(p, "GetAll", "")
        \/ TestReturn(p)

Spec == Init /\ [][Next]_vars

(* ----- AliasSpec: callers that keep and change the records they hold, ---- *)
(* ----- with time passing between their calls ----------------------------- *)
AliasNext ==
    \/ Next
    \/ \E p \in Procs :
        \/ TestKeep(p)
        \/ TestMutate(p)
        \/ TestUpdate(p)
    \/ Tick

AliasSpec == Init /\ [][AliasNext]_vars

(* ---- CreateSpec: TestConcurrentAccess, one Create per goroutine ------- *)
\* string(rune('A'+id)): one letter per goroutine, pairwise distinct
Letters == <<"A", "B", "C", "D", "E", "F">>
IdOf(p) == Letters[p]

\* go func(id int) { repo.Create(createTestService(string(rune('A'+id)), "service")) }
ConcCreate(p) ==
    /\ spc[p] = "Idle"
    /\ Start
    /\ held[p] = 0
    /\ heap' = Append(heap, createTestService(IdOf(p), "service", now, now))
    /\ held' = [held EXCEPT ![p] = Len(heap) + 1]
    /\ Enter(p, "Create", "", Len(heap) + 1)
    /\ UNCHANGED <<services, writer, readers, exists, ret, live>>
    /\ UNCHANGED <<now, apiVars>>

CreateNext ==
    \E p \in Procs :
        \/ Lock(p)
        \/ RLock(p)
        \/ Check(p)
        \/ Create(p)
        \/ GetByID(p)
        \/ GetAll(p)
        \/ Exists(p)
        \/ ConcCreate(p)
        \/ \E name \in {"GetByID", "Exists"}, q \in Procs : TestCall(p, name, IdOf(q))
        \/ TestCall(p, "GetAll", "")
        \/ TestReturn(p)

CreateSpec == Init /\ [][CreateNext]_vars

(* ------------- ApiSpec: HTTP requests served concurrently, ------------- *)
(* ------------- within one reading of the clock -------------------------- *)
ApiNext ==
    \E p \in Procs :
        \/ Lock(p)
        \/ RLock(p)
        \/ Check(p)
        \/ Create(p)
        \/ Update(p)
        \/ Delete(p)
        \/ GetByID(p)
        \/ GetAll(p)
        \/ \E b \in RegisterBodies : HandleRegister(p, b, now, now)
        \/ RegisterDone(p)
        \/ \E id \in PathIds : HandleByID(p, "Get", id, ZeroBody)
        \/ GetDone(p)
        \/ HandleList(p)
        \/ ListDone(p)
        \/ \E id \in PathIds, b \in UpdateBodies : HandleByID(p, "Update", id, b)
        \/ UpdateFetched(p)
        \/ UpdateMerge(p)
        \/ UpdateDone(p)
        \/ \E id \in PathIds : HandleByID(p, "Unregister", id, ZeroBody)
        \/ UnregisterFetched(p)
        \/ UnregisterDone(p)

ApiSpec == Init /\ [][ApiNext]_vars

(* ---- FairSpec: the Go scheduler runs every runnable goroutine, and ----- *)
(* ---- sync.RWMutex hands the lock to a goroutine that keeps waiting; ----- *)
(* ---- the callers contend for the lock over the one id "1" --------------- *)
FairNext ==
    \E p \in Procs :
        \/ Lock(p)
        \/ RLock(p)
        \/ Check(p)
        \/ Create(p)
        \/ Update(p)
        \/ Delete(p)
        \/ GetByID(p)
        \/ GetAll(p)
        \/ Exists(p)
        \/ TestCreate(p, "1", "service")
        \/ TestUpdateNew(p, "1")
        \/ \E name \in {"GetByID", "Delete", "Exists"} : TestCall(p, name, "1")
        \/ TestCall(p, "GetAll", "")
        \/ TestReturn(p)

FairSpec ==
    /\ Init /\ [][FairNext]_vars
    /\ \A p \in Procs :
        /\ SF_vars(Lock(p) \/ RLock(p))
        /\ WF_vars(Check(p) \/ Create(p) \/ Update(p) \/ Delete(p)
                      \/ GetByID(p) \/ GetAll(p) \/ Exists(p))

(* ============================== claims ================================= *)
\* the last step of a repository method of goroutine p
Returns(p, name) ==
    /\ op[p].name = name
    /\ spc[p] \in {"Write", "Read"}
    /\ spc'[p] = "Done"

\* C1: Create with an id that is present fails with AlreadyExists and leaves
\* every stored record as it was; with an absent id it inserts the record
\* under its id, keeps the other entries and returns nil.
C1_CreateContract ==
    [][\A p \in Procs : Returns(p, "Create") =>
         LET id == heap[op[p].ptr].id IN
         IF id \in DOMAIN services
         THEN /\ ret'[p].err = ErrServiceAlreadyExists
              /\ services' = services
              /\ StoreContent' = StoreContent
         ELSE /\ ret'[p].err = NoErr
              /\ DOMAIN services' = DOMAIN services \cup {id}
              /\ services'[id] = op[p].ptr
              /\ \A i \in DOMAIN services :
                    services'[i] = services[i] /\ StoreContent'[i] = StoreContent[i]
      ]_vars

\* a Create has failed on a duplicate while the first record is still stored
C1_Witness ==
    \E p \in Procs :
        /\ spc[p] = "Done" /\ op[p].name = "Create"
        /\ ret[p].err = ErrServiceAlreadyExists
        /\ heap[op[p].ptr].id \in DOMAIN services
        /\ services[heap[op[p].ptr].id] # op[p].ptr

\* C2: whatever the interleaving, for every id the successful Creates exceed
\* the successful Deletes by one when the id is stored and by none when it is
\* not: of the Creates racing for one id exactly one succeeds.
C2_OneCreatePerId ==
    \A id \in DOMAIN live \cup DOMAIN services :
        Live(id) = IF id \in DOMAIN services THEN 1 ELSE 0

\* two Creates for one id overlapped: one returned nil, the other AlreadyExists
C2_Witness ==
    \E p, q \in Procs :
        /\ p # q
        /\ spc[p] = "Done" /\ op[p].name = "Create" /\ ret[p].err = NoErr
        /\ spc[q] = "Done" /\ op[q].name = "Create"
        /\ ret[q].err = ErrServiceAlreadyExists
        /\ heap[op[p].ptr].id = heap[op[q].ptr].id

\* C3: GetByID, Update and Delete with an id that is not stored return
\* NotFound and change neither the map nor any record.
C3_NotFound ==
    [][\A p \in Procs :
         /\ (Returns(p, "GetByID") /\ op[p].id \notin DOMAIN services)
              => ret'[p].err = ErrServiceNotFound /\ services' = services /\ heap' = heap
         /\ (Returns(p, "Delete") /\ op[p].id \notin DOMAIN services)
              => ret'[p].err = ErrServiceNotFound /\ services' = services /\ heap' = heap
         /\ (Returns(p, "Update") /\ heap[op[p].ptr].id \notin DOMAIN services)
              => ret'[p].err = ErrServiceNotFound /\ services' = services /\ heap' = heap
      ]_vars

\* an Update of a missing id has returned NotFound and the id is still missing
C3_Witness ==
    \E p \in Procs :
        /\ spc[p] = "Done" /\ op[p].name = "Update"
        /\ ret[p].err = ErrServiceNotFound
        /\ heap[op[p].ptr].id \notin DOMAIN services

\* C4: a goroutine inside the critical section of Create, Update or Delete is
\* alone there: no other goroutine is inside a write or a read section.
C4_WriterExcludesAll ==
    \A p, q \in Procs :
        (p # q /\ InWriteSection(p)) => ~InWriteSection(q) /\ ~InReadSection(q)

\* two readers are inside their critical sections at the same time
C4_Witness ==
    \E p, q \in Procs : p # q /\ InReadSection(p) /\ InReadSection(q)

\* C5: a goroutine outside the critical sections holds no lock (every return
\* path released it), and under fair scheduling every repository call that
\* was started returns.
C5_ReleaseAndComplete ==
    /\ [](\A p \in Procs :
            ~(InWriteSection(p) \/ InReadSection(p)) => writer # p /\ p \notin readers)
    /\ \A p \in Procs : (spc[p] \in {"Lock", "RLock"}) ~> (spc[p] = "Done")

\* a call returned an error while another goroutine waits for the lock
C5_Witness ==
    \E p, q \in Procs :
        /\ spc[p] = "Done" /\ ret[p].err # NoErr /\ op[p].name \in {"Create", "Update", "Delete"}
        /\ spc[q] \in {"Lock", "RLock"}

\* C6: with one Create per goroutine, each under its own id, and reads running
\* beside them, every Create returns nil and the map holds exactly the records
\* whose Create has written.
CreateWritten(p) ==
    held[p] # 0 /\ ~(op[p].name = "Create" /\ spc[p] \in {"Lock", "Check", "Write"})

C6_UnionOfCreated ==
    /\ \A p \in Procs :
          (spc[p] = "Done" /\ op[p].name = "Create") => ret[p].err = NoErr
    /\ DOMAIN services = {IdOf(p) : p \in {q \in Procs : CreateWritten(q)}}
    /\ \A p \in Procs : CreateWritten(p) =>
          services[IdOf(p)] = held[p] /\ heap[held[p]].id = IdOf(p)

\* every goroutine's Create has returned and a GetAll that ran beside them
\* has returned a non-empty snapshot
C6_Witness ==
    /\ \A p \in Procs : CreateWritten(p)
    /\ \E p \in Procs :
          spc[p] = "Done" /\ op[p].name = "GetAll" /\ ret[p].all # {}

\* C8: the content of the store changes only in the step in which a Create,
\* an Update or a Delete succeeds.
C8_ExclusiveOwnership ==
    [][StoreContent' # StoreContent =>
         \E p \in Procs :
            /\ op[p].name \in {"Create", "Update", "Delete"}
            /\ spc[p] = "Write" /\ spc'[p] = "Done"
            /\ ret'[p].err = NoErr
      ]_vars

\* C7: a Get or a List that reads a record while an Update request for the
\* same record is in flight sees none or all of the request's field changes:
\* never one field already changed and another not yet.
Reads(p) ==
    IF handler[p] \in {"Get", "List"} /\ pc[p] = "fetch" /\ spc[p] = "Done" /\ pc'[p] = "idle"
    THEN (IF handler[p] = "List" THEN ret[p].all
          ELSE IF ret[p].err = NoErr THEN {ret[p].ptr} ELSE {})
    ELSE {}

SeesPartOf(q, seen) ==
    \E k1, k2 \in 1..Len(MergeFields) :
        LET f1 == MergeFields[k1]
            f2 == MergeFields[k2]
            b == req[q].body
        IN /\ Provided(b, k1) /\ Provided(b, k2)
           /\ fetched[q][f1] # b[f1] /\ seen[f1] = b[f1]
           /\ seen[f2] # b[f2]

C7_NoPartialRead ==
    [][\A p \in Procs : \A a \in Reads(p) : \A q \in Procs \ {p} :
          (handler[q] = "Update" /\ pc[q] \in {"merge", "store"} /\ held[q] = a)
             => ~SeesPartOf(q, heap[a])
      ]_vars

\* the body fails one of the conditions the claim lists
InvalidRegister(b) == b.name = "" \/ b.host = "" \/ b.port < 1 \/ b.port > 65535

\* C9: a Register request with an empty name, an empty host or a port outside
\* 1..65535 is answered 400 at once, and neither the map nor any record changes.
C9_InvalidRegisterRejected ==
    [][\A p \in Procs :
          ( /\ pc[p] = "idle"
            /\ calls' = calls + 1
            /\ <<handler'[p], req'[p], resp'[p], pc'[p]>> # <<handler[p], req[p], resp[p], pc[p]>>
            /\ handler'[p] = "Register"
            /\ InvalidRegister(req'[p].body) )
          => /\ resp'[p].status = 400
             /\ pc'[p] = "idle"
             /\ services' = services
             /\ heap' = heap
      ]_vars

\* a Register with an invalid body was answered 400 while a record is stored
C9_Witness ==
    \E p \in Procs :
        /\ handler[p] = "Register" /\ pc[p] = "idle"
        /\ resp[p].status = 400
        /\ InvalidRegister(req[p].body)
        /\ DOMAIN services # {}

\* C10: the Create of a Register adds one entry to the map under an id that
\* was not stored and leaves every other entry and record as it was; the 201
\* response carries that record's id, which is not empty, was never answered
\* before and is the id of no other record ever built.
C10_FreshIdOneRecord ==
    [][\A p \in Procs :
          /\ (handler[p] = "Register" /\ Returns(p, "Create") /\ ret'[p].err = NoErr)
               => LET id == heap[op[p].ptr].id IN
                  /\ id \notin DOMAIN services
                  /\ DOMAIN services' = DOMAIN services \cup {id}
                  /\ services'[id] = op[p].ptr
                  /\ \A i \in DOMAIN services : services'[i] = services[i]
                  /\ heap' = heap
          /\ (handler[p] = "Register" /\ pc[p] = "store" /\ pc'[p] = "idle")
               => \/ resp'[p].status = 500 /\ ret[p].err # NoErr
                  \/ /\ resp'[p].status = 201 /\ ret[p].err = NoErr
                     /\ resp'[p].service.id # ""
                     /\ resp'[p].service.id = heap[held[p]].id
                     /\ resp'[p].service.id \notin issued
                     /\ \A a \in 1..Len(heap) :
                           a # held[p] => heap[a].id # resp'[p].service.id
      ]_vars

\* a Register was answered 201 after an earlier registration was unregistered
C10_Witness ==
    \E p \in Procs :
        /\ handler[p] = "Register" /\ pc[p] = "idle" /\ resp[p].status = 201
        /\ resp[p].service.id \in DOMAIN services
        /\ \E i \in issued : i # resp[p].service.id /\ i \notin DOMAIN services

(* ---------- RegisterSpec: registrations with and without the ----------- *)
(* ---------- optional fields of the request ------------------------------ *)
\* the request of TestRegisterService, and requests that set the optional fields
MinimalBody ==
    [ZeroBody EXCEPT !.name = "test-service", !.host = "localhost", !.port = 3000,
                     !.tags = Coll(<<"test">>)]
OptionalFields ==
    [ZeroBody EXCEPT !.protocol = "https", !.basePath = "/api/v1",
                     !.routes = Coll(<<[path |-> "/users", methods |-> <<"GET", "POST">>]>>),
                     !.healthCheck = "/healthz", !.tags = Coll(<<"api", "v1">>),
                     !.metadata = Coll(<<<<"version", "1.0.0">>>>)]
FullRegisterBodies ==
    {[f \in DOMAIN ZeroBody |-> IF f \in F THEN OptionalFields[f] ELSE MinimalBody[f]] :
        F \in {{}, {"protocol"}, {"healthCheck"},
               {"protocol", "basePath", "routes", "healthCheck", "tags", "metadata"}}}

RegisterNext ==
    \E p \in Procs :
        \/ Lock(p)
        \/ Check(p)
        \/ Create(p)
        \/ \E b \in FullRegisterBodies : HandleRegister(p, b, now, now)
        \/ RegisterDone(p)

RegisterSpec == Init /\ [][RegisterNext]_vars

\* C11: the record a Register stores, and the one its 201 response carries,
\* has protocol "http" when the request's protocol is empty and healthCheck
\* "/health" when the request's healthCheck is empty; otherwise it has the
\* request's protocol and healthCheck; name, host, port, basePath, routes,
\* tags and metadata are the request's.
AsRequested(svc, b) ==
    /\ svc.protocol = (IF b.protocol = "" THEN "http" ELSE b.protocol)
    /\ svc.healthCheck = (IF b.healthCheck = "" THEN "/health" ELSE b.healthCheck)
    /\ \A f \in {"name", "host", "port", "basePath", "routes", "tags", "metadata"} :
          svc[f] = b[f]

C11_RegisterDefaults ==
    [][\A p \in Procs :
          /\ (handler[p] = "Register" /\ Returns(p, "Create") /\ ret'[p].err = NoErr)
               => AsRequested(StoreContent'[heap[op[p].ptr].id], req[p].body)
          /\ (handler[p] = "Register" /\ pc[p] = "store" /\ pc'[p] = "idle"
                 /\ resp'[p].status = 201)
               => AsRequested(resp'[p].service, req[p].body)
      ]_vars

\* a request without protocol and healthCheck was stored with the defaults
\* while a record registered with its own protocol and healthCheck is stored
C11_Witness ==
    \E p \in Procs :
        /\ handler[p] = "Register" /\ pc[p] = "store" /\ spc[p] = "Done"
        /\ ret[p].err = NoErr
        /\ req[p].body.protocol = "" /\ req[p].body.healthCheck = ""
        /\ heap[held[p]].id \in DOMAIN services
        /\ StoreContent[heap[held[p]].id].protocol = "http"
        /\ StoreContent[heap[held[p]].id].healthCheck = "/health"
        /\ \E i \in DOMAIN services :
              StoreContent[i].protocol = "https" /\ StoreContent[i].healthCheck = "/healthz"

(* ---------- BeatSpec: Update, Heartbeat and Unregister requests for ------ *)
(* ---------- ids that Register has answered, served concurrently --------- *)
(* ---------- while the clock advances ------------------------------------- *)
\* bodies of PUT /services/:id/update: the one of TestServiceLifecycle and
\* one with two fields
PartialUpdates ==
    {[ZeroBody EXCEPT !.port = 5000],
     [ZeroBody EXCEPT !.host = "127.0.0.1", !.protocol = "https"]}

\* what a call of time.Now() may return: the clock never runs backwards
Clock == now..MaxClock

BeatNext ==
    \E p \in Procs :
        \/ Lock(p)
        \/ RLock(p)
        \/ Check(p)
        \/ Create(p)
        \/ Update(p)
        \/ Delete(p)
        \/ GetByID(p)
        \/ \E t \in Clock : HandleRegister(p, MinimalBody, t, t)
        \/ RegisterDone(p)
        \/ \E id \in issued, b \in PartialUpdates : HandleByID(p, "Update", id, b)
        \/ UpdateFetched(p)
        \/ UpdateMerge(p)
        \/ UpdateDone(p)
        \/ \E id \in issued : HandleByID(p, "Heartbeat", id, ZeroBody)
        \/ \E t \in Clock : HeartbeatFetched(p, t)
        \/ HeartbeatStamp(p)
        \/ HeartbeatMark(p)
        \/ HeartbeatDone(p)
        \/ \E id \in issued : HandleByID(p, "Unregister", id, ZeroBody)
        \/ UnregisterFetched(p)
        \/ UnregisterDone(p)

BeatSpec == Init /\ [][BeatNext]_vars

(* ---------- ClearSpec: Update requests that carry empty collections ------ *)
\* bodies {"tags": []} and {"routes": [], "metadata": {}}: encoding/json
\* decodes an empty array or object into an empty, non-nil slice or map
EmptyCollections ==
    {[ZeroBody EXCEPT !.tags = Coll(<<>>)],
     [ZeroBody EXCEPT !.routes = Coll(<<>>), !.metadata = Coll(<<>>)]}

ClearNext ==
    \E p \in Procs :
        \/ Lock(p)
        \/ RLock(p)
        \/ Check(p)
        \/ Create(p)
        \/ Update(p)
        \/ GetByID(p)
        \/ \E b \in FullRegisterBodies : HandleRegister(p, b, now, now)
        \/ RegisterDone(p)
        \/ \E id \in issued, b \in EmptyCollections : HandleByID(p, "Update", id, b)
        \/ UpdateFetched(p)
        \/ UpdateMerge(p)
        \/ UpdateDone(p)

ClearSpec == Init /\ [][ClearNext]_vars

\* the updatable fields of a record, and the ones that are collections
Updatable == {"host", "port", "protocol", "basePath", "routes", "healthCheck", "tags", "metadata"}
Collections == {"routes", "tags", "metadata"}

\* the request carries a value for field f that is not the zero value of its
\* type: a non-empty string, a non-zero port, a non-nil list or map
SentNonZero(b, f) ==
    IF f \in Collections THEN b[f] # NilColl
    ELSE IF f = "port" THEN b[f] # 0
    ELSE b[f] # ""

\* goroutine p, serving handler h, takes a step
StepOf(p, h) ==
    /\ handler[p] = h /\ pc[p] # "idle"
    /\ <<pc[p], spc[p], mergeIdx[p]>> # <<pc'[p], spc'[p], mergeIdx'[p]>>

\* C12: every step of an Update request either copies one field into the
\* fetched record, namely the first field not yet looked at whose request
\* value is present and non-zero, or changes no record and no entry of the
\* store; when the handler goes on to repo.Update no such field is left. So
\* exactly the fields the request carries are overwritten, with the request's
\* values; lastHeartbeat and the other records are never written.
C12_UpdateWritesSentFields ==
    [][\A p \in Procs : StepOf(p, "Update") =>
          LET b == req[p].body
              Left == {k \in mergeIdx[p]..Len(MergeFields) : SentNonZero(b, MergeFields[k])}
          IN IF pc[p] = "merge" /\ Left # {}
             THEN \E k \in Left :
                     /\ \A j \in Left : k <= j
                     /\ mergeIdx'[p] = k + 1
                     /\ pc'[p] = "merge"
                     /\ heap' = [heap EXCEPT ![held[p]][MergeFields[k]] = b[MergeFields[k]]]
                     /\ services' = services
             ELSE /\ heap' = heap
                  /\ StoreContent' = StoreContent
                  /\ pc[p] = "merge" => pc'[p] = "store"
      ]_vars

\* the request of TestServiceLifecycle, {port: 5000}, has been merged and
\* stored: the record is the fetched one with port 5000 and nothing else changed
C12_Witness ==
    \E p \in Procs :
        /\ handler[p] = "Update" /\ pc[p] = "store" /\ spc[p] = "Done"
        /\ ret[p].err = NoErr
        /\ req[p].body = [ZeroBody EXCEPT !.port = 5000]
        /\ fetched[p].port = 3000
        /\ heap[held[p]] = [fetched[p] EXCEPT !.port = 5000]
        /\ StoreContent[req[p].id] = heap[held[p]]

\* a string is non-empty, a port non-zero, a collection has an element
NonEmpty(svc, f) ==
    IF f \in Collections THEN ~svc[f].nil /\ svc[f].elems # <<>>
    ELSE IF f = "port" THEN svc[f] # 0
    ELSE svc[f] # ""

\* C13: no step makes an updatable field of a record empty that was not
\* empty before.
C13_NoResetToZero ==
    [][\A a \in 1..Len(heap) : \A f \in Updatable :
          NonEmpty(heap[a], f) => NonEmpty(heap'[a], f)
      ]_vars

\* C14: the key of every entry of the store is the id of its record, and no
\* step changes the id, the name or registeredAt of a record.
C14_IdentityKept ==
    /\ [](\A i \in DOMAIN services : heap[services[i]].id = i)
    /\ [][\A a \in 1..Len(heap) :
             /\ heap'[a].id = heap[a].id
             /\ heap'[a].name = heap[a].name
             /\ heap'[a].registeredAt = heap[a].registeredAt
         ]_vars

\* a stored record was updated and, later than its registration, heartbeaten
C14_Witness ==
    \E i \in DOMAIN services :
        /\ StoreContent[i].port = 5000
        /\ StoreContent[i].lastHeartbeat > StoreContent[i].registeredAt
        /\ StoreContent[i].name = "test-service"
        /\ \A p \in Procs : pc[p] = "idle"

\* C15: no step lowers the lastHeartbeat of a record.
C15_HeartbeatMonotone ==
    [][\A a \in 1..Len(heap) : heap'[a].lastHeartbeat >= heap[a].lastHeartbeat]_vars

\* C16: every stored record has status "healthy".
C16_AlwaysHealthy ==
    \A i \in DOMAIN services : StoreContent[i].status = "healthy"

\* a Heartbeat was answered 200 and the record it stamped is stored
C16_Witness ==
    \E p \in Procs :
        /\ handler[p] = "Heartbeat" /\ pc[p] = "idle" /\ resp[p].status = 200
        /\ \E i \in DOMAIN services :
              StoreContent[i].lastHeartbeat = resp[p].lastHeartbeat
              /\ StoreContent[i].lastHeartbeat > StoreContent[i].registeredAt

(* ---------- MissingSpec: requests for ids that are not stored ----------- *)
\* ids a client may send that the store does not hold: one nobody was given,
\* or one whose record has been unregistered
MissingIds == (issued \cup {"non-existent-id"}) \ DOMAIN services

MissingNext ==
    \E p \in Procs :
        \/ Lock(p)
        \/ RLock(p)
        \/ Check(p)
        \/ Create(p)
        \/ Delete(p)
        \/ GetByID(p)
        \/ HandleRegister(p, MinimalBody, now, now)
        \/ RegisterDone(p)
        \/ \E id \in MissingIds : HandleByID(p, "Get", id, ZeroBody)
        \/ GetDone(p)
        \/ \E id \in MissingIds, b \in UpdateBodies : HandleByID(p, "Update", id, b)
        \/ UpdateFetched(p)
        \/ \E id \in MissingIds : HandleByID(p, "Heartbeat", id, ZeroBody)
        \/ HeartbeatFetched(p, now)
        \/ \E id \in PathIds : HandleByID(p, "Unregister", id, ZeroBody)
        \/ UnregisterFetched(p)
        \/ UnregisterDone(p)

MissingSpec == Init /\ [][MissingNext]_vars

\* C17: in a Get, Update, Heartbeat or Unregister request, GetByID of an id
\* that is not a key of the store returns NotFound, and the handler then
\* answers 404 at once, whatever the body of the request; neither step changes
\* the store's map or any record.
C17_MissingIdIs404 ==
    [][\A p \in Procs :
          handler[p] \in {"Get", "Update", "Heartbeat", "Unregister"} =>
             /\ (Returns(p, "GetByID") /\ op[p].id \notin DOMAIN services)
                  => /\ ret'[p].err = ErrServiceNotFound
                     /\ services' = services /\ heap' = heap
             /\ (StepOf(p, handler[p]) /\ pc[p] = "fetch" /\ spc[p] = "Done"
                    /\ ret[p].err = ErrServiceNotFound)
                  => /\ resp'[p].status = 404 /\ pc'[p] = "idle"
                     /\ services' = services /\ heap' = heap
      ]_vars

\* with a record stored, a Heartbeat for a missing id was answered 404 and
\* an Update for a missing id whose body has a port out of range has got
\* NotFound from GetByID
C17_Witness ==
    \E p, q \in Procs :
        /\ DOMAIN services # {}
        /\ handler[q] = "Heartbeat" /\ pc[q] = "idle" /\ resp[q].status = 404
        /\ handler[p] = "Update" /\ pc[p] = "fetch" /\ spc[p] = "Done"
        /\ ret[p].err = ErrServiceNotFound
        /\ req[p].body.port = 65536

(* ---------- LifecycleSpec: TestServiceLifecycle, one client that -------- *)
(* ---------- sends each request after the answer to the one before ------- *)
Lifecycle == <<"Register", "Get", "Update", "Heartbeat", "Unregister", "Get">>

\* the request of TestServiceLifecycle
LifecycleBody ==
    [ZeroBody EXCEPT !.name = "lifecycle-service", !.host = "127.0.0.1", !.port = 4000]

\* the client sends the next request of the sequence, for the id it was given
LifecycleRequest(p) ==
    /\ \A q \in Procs : pc[q] = "idle"
    /\ calls < Len(Lifecycle)
    /\ LET h == Lifecycle[calls + 1] IN
       IF h = "Register"
       THEN \E b \in FullRegisterBodies \cup {LifecycleBody}, t \in Clock :
               HandleRegister(p, b, t, t)
       ELSE \E id \in issued :
               HandleByID(p, h, id, IF h = "Update" THEN [ZeroBody EXCEPT !.port = 5000]
                                    ELSE ZeroBody)

LifecycleNext ==
    \E p \in Procs :
        \/ Lock(p)
        \/ RLock(p)
        \/ Check(p)
        \/ Create(p)
        \/ Update(p)
        \/ Delete(p)
        \/ GetByID(p)
        \/ LifecycleRequest(p)
        \/ RegisterDone(p)
        \/ GetDone(p)
        \/ UpdateFetched(p)
        \/ UpdateMerge(p)
        \/ UpdateDone(p)
        \/ \E t \in Clock : HeartbeatFetched(p, t)
        \/ HeartbeatStamp(p)
        \/ HeartbeatMark(p)
        \/ HeartbeatDone(p)
        \/ UnregisterFetched(p)
        \/ UnregisterDone(p)

LifecycleInit == NewRegistry /\ budget = Len(Lifecycle)

LifecycleSpec == LifecycleInit /\ [][LifecycleNext]_vars

\* C18: the answers to Register, Get, Update, Heartbeat, Unregister, Get, sent
\* one after the other for the registered id, are 201, 200, 200, 200, 200 and
\* 404; the record is stored from the step that creates it to the step that
\* deletes it and never afterwards.
C18_LifecycleAnswers ==
    /\ [][\A p \in Procs :
             (pc[p] # "idle" /\ pc'[p] = "idle") =>
                resp'[p].status = <<201, 200, 200, 200, 200, 404>>[calls]
         ]_vars
    /\ []((\A p \in Procs : pc[p] = "idle") =>
             /\ calls \in 1..4 => (DOMAIN services = issued /\ issued # {})
             /\ calls \in 5..6 => DOMAIN services = {})
    /\ [][calls >= 5 => DOMAIN services' \subseteq DOMAIN services]_vars

\* the last Get of the sequence has been answered 404
C18_Witness ==
    /\ calls = 6
    /\ \A p \in Procs : pc[p] = "idle"
    /\ \E p \in Procs : handler[p] = "Get" /\ resp[p].status = 404
    /\ issued # {} /\ DOMAIN services = {}

(* ---------- SearchSpec: registrations and searches ----------------------- *)
\* the characters of the strings that names, route paths and queries take
Chars ==
    [s \in {"", "Test-Service", "other", "test", "SERVICE", "/users", "/user", "/orders"} |->
        CASE s = "" -> <<>>
          [] s = "Test-Service" -> <<"T", "e", "s", "t", "-", "S", "e", "r", "v", "i", "c", "e">>
          [] s = "other" -> <<"o", "t", "h", "e", "r">>
          [] s = "test" -> <<"t", "e", "s", "t">>
          [] s = "SERVICE" -> <<"S", "E", "R", "V", "I", "C", "E">>
          [] s = "/users" -> <<"/", "u", "s", "e", "r", "s">>
          [] s = "/user" -> <<"/", "u", "s", "e", "r">>
          [] s = "/orders" -> <<"/", "o", "r", "d", "e", "r", "s">>]

UpperCase == <<"A", "B", "C", "D", "E", "F", "G", "H", "I", "J", "K", "L", "M",
               "N", "O", "P", "Q", "R", "S", "T", "U", "V", "W", "X", "Y", "Z">>
LowerCase == <<"a", "b", "c", "d", "e", "f", "g", "h", "i", "j", "k", "l", "m",
               "n", "o", "p", "q", "r", "s", "t", "u", "v", "w", "x", "y", "z">>

\* a ToLower that leaves every character as it is
ToLowerIdentity(cs) == cs
\* strings.ToLower
ToLower(cs) ==
    [i \in 1..Len(cs) |->
        IF \E k \in 1..Len(UpperCase) : UpperCase[k] = cs[i]
        THEN LowerCase[CHOOSE k \in 1..Len(UpperCase) : UpperCase[k] = cs[i]]
        ELSE cs[i]]

\* strings.HasPrefix(s, prefix)
HasPrefix(cs, prefix) ==
    Len(prefix) <= Len(cs) /\ SubSeq(cs, 1, Len(prefix)) = prefix

\* strings.Contains(s, substr)
Contains(cs, sub) ==
    \E i \in 0..(Len(cs) - Len(sub)) : SubSeq(cs, i + 1, i + Len(sub)) = sub

\* the body of Search's loop: TRUE when svc is appended to results
Matches(svc, q) ==
    /\ q.route # "" =>
          \E i \in 1..Len(svc.routes.elems) :
             \/ HasPrefix(Chars[svc.routes.elems[i].path], Chars[q.route])
             \/ svc.routes.elems[i].path = q.route
    /\ q.name # "" => Contains(ToLower(Chars[svc.name]), ToLower(Chars[q.name]))
    /\ q.tag # "" => \E i \in 1..Len(svc.tags.elems) : svc.tags.elems[i] = q.tag

\* Search up to h.repo.GetAll(); q holds c.Query("route"), c.Query("name")
\* and c.Query("tag")
HandleSearch(p, q) ==
    /\ Begin(p, "Search", "", q)
    /\ Enter(p, "GetAll", "", 0)
    /\ pc' = [pc EXCEPT ![p] = "fetch"]
    /\ resp' = [resp EXCEPT ![p] = NoResp]
    /\ UNCHANGED <<services, heap, writer, readers, exists, ret, held, mergeIdx,
                   now, nextUUID, live, issued, fetched, stamp>>

\* Search after h.repo.GetAll(): the filter loop and c.JSON
SearchDone(p) ==
    /\ handler[p] = "Search" /\ pc[p] = "fetch" /\ spc[p] = "Done"
    /\ LET results == {a \in ret[p].all : Matches(heap[a], req[p].body)} IN
       Finish(p, [NoResp EXCEPT !.status = StatusOK,
                                !.services = {heap[a] : a \in results},
                                !.count = Cardinality(results)])
    /\ UNCHANGED <<services, heap, writer, readers, handler, now, nextUUID,
                   calls, budget, client, builder, live, issued>>

\* records to search among
SearchableBodies ==
    {[MinimalBody EXCEPT !.name = "Test-Service", !.tags = Coll(<<"api", "v1">>),
                         !.routes = Coll(<<[path |-> "/orders", methods |-> <<"GET">>],
                                           [path |-> "/users", methods |-> <<"GET", "POST">>]>>)],
     [MinimalBody EXCEPT !.name = "other", !.tags = Coll(<<"v10">>)]}

\* the query strings of GET /services/search
Queries ==
    [route : {"", "/user"}, name : {"", "test", "SERVICE"}, tag : {"", "v1"}]

SearchNext ==
    \E p \in Procs :
        \/ Lock(p)
        \/ RLock(p)
        \/ Check(p)
        \/ Create(p)
        \/ GetAll(p)
        \/ \E b \in SearchableBodies : HandleRegister(p, b, now, now)
        \/ RegisterDone(p)
        \/ \E q \in Queries : HandleSearch(p, q)
        \/ SearchDone(p)

SearchSpec == Init /\ [][SearchNext]_vars

\* two characters are the same letter in either case, or the same character
SameIgnoringCase(c, d) ==
    \/ c = d
    \/ \E k \in 1..Len(UpperCase) : {c, d} = {UpperCase[k], LowerCase[k]}

\* the record passes the filters of the query, in the words of the claim
Passes(svc, q) ==
    /\ q.route = "" \/
          \E i \in 1..Len(svc.routes.elems) :
             LET path == Chars[svc.routes.elems[i].path]
                 want == Chars[q.route]
             IN Len(want) <= Len(path) /\ \A j \in 1..Len(want) : path[j] = want[j]
    /\ q.name = "" \/
          LET name == Chars[svc.name]
              want == Chars[q.name]
          IN \E off \in 0..(Len(name) - Len(want)) :
                \A j \in 1..Len(want) : SameIgnoringCase(name[off + j], want[j])
    /\ q.tag = "" \/ q.tag \in {svc.tags.elems[i] : i \in 1..Len(svc.tags.elems)}

\* C19: the GetAll of a Search returns every stored record; the answer is 200
\* with exactly those of them that pass the route, name and tag filters of
\* the query (an empty filter passes every record), and count is the number
\* of records returned.
C19_SearchFilters ==
    [][\A p \in Procs : handler[p] = "Search" =>
          /\ Returns(p, "GetAll") =>
                ret'[p].all = {services[i] : i \in DOMAIN services}
          /\ (pc[p] = "fetch" /\ pc'[p] = "idle") =>
                /\ resp'[p].status = 200
                /\ resp'[p].services =
                      {heap[a] : a \in {x \in ret[p].all : Passes(heap[x], req[p].body)}}
                /\ resp'[p].count = Cardinality(resp'[p].services)
      ]_vars

\* with "Test-Service" and "other" stored and no request running, the
\* Search has answered with the one record "Test-Service"
C19_Witness ==
    \E p \in Procs :
        /\ {StoreContent[i].name : i \in DOMAIN services} = {"Test-Service", "other"}
        /\ handler[p] = "Search" /\ pc[p] = "idle" /\ resp[p].status = 200
        /\ \A q \in Procs : pc[q] = "idle"
        /\ resp[p].count = 1 /\ resp[p].services # {}
        /\ \A r \in resp[p].services : r.name = "Test-Service"

(* ---------- ClientSpec: the servicediscovery client's transport ---------- *)
\* everything but the client and the count of its calls
registry == <<services, heap, writer, readers, spc, op, exists, ret, held, pc,
              handler, req, mergeIdx, resp, now, nextUUID, live, issued,
              fetched, stamp, builder>>

\* defaultOptions: retries, and retryDelay in seconds
DefaultRetries == 3
DefaultRetryDelay == 1

\* the values WithRetries and WithRetryDelay are given
RetryCounts == -1..DefaultRetries
RetryDelays == {0, DefaultRetryDelay}

\* what c.httpClient.Do returns: an error, or a response with a status
TransportErrors == {"connection refused", "timeout"}
Responses == {StatusOK, StatusNotFound, StatusInternalServerError}

\* error values: nil, a plain error, and fmt.Errorf("%w: %v", sentinel, err)
NilError == [isNil |-> TRUE, wraps |-> "", text |-> ""]
PlainError(e) == [isNil |-> FALSE, wraps |-> "", text |-> e]
Wrapped(sentinel, e) == [isNil |-> FALSE, wraps |-> sentinel, text |-> e]
ErrConnectionFailed == "ErrConnectionFailed"

\* the events of a call: an attempt, and a wait of d seconds
Attempt == [event |-> "Do", delay |-> 0]
Slept(d) == [event |-> "Sleep", delay |-> d]

\* a doRequest that waits after every failed attempt
SleepsBeforeRetryAlways(i, retries) == TRUE
\* doRequest: `if i < c.options.retries` after a failed attempt
SleepsBeforeRetry(i, retries) == i < retries

\* errors.go: the typed errors of the client package
ClientError(name) == [isNil |-> FALSE, wraps |-> name, text |-> name]

\* response bodies: a JSON object with an id (a Service), a JSON object with
\* an error message (gin.H{"error": ...}), and a body that is not JSON
JSONBody(id, msg) == [json |-> TRUE, id |-> id, error |-> msg]
NotJSON == [json |-> FALSE, id |-> "", error |-> ""]

\* what doRequest returns to a client method: (resp, nil), (nil, err), and
\* (nil, nil) from the `return nil, lastErr` after a loop that never ran
NoResponse == [status |-> 0, body |-> NotJSON]
DoRequestResults ==
    {[resp |-> [status |-> st, body |-> b], err |-> NilError] :
        st \in {StatusOK, StatusCreated, StatusBadRequest, StatusNotFound,
                StatusInternalServerError},
        b \in {JSONBody("svc-1", ""), JSONBody("svc-2", ""),
               JSONBody("", "service not found"), NotJSON}}
    \cup {[resp |-> NoResponse, err |-> Wrapped(ErrConnectionFailed, e)] :
             e \in TransportErrors}
    \cup {[resp |-> NoResponse, err |-> NilError]}

\* the results doRequest can return with n retries configured: with n < 0
\* the loop body never runs, with n >= 0 it runs at least once
ResultsFor(n) ==
    {res \in DoRequestResults : (res.err.isNil /\ res.resp.status = 0) <=> n < 0}

\* Client.parseError
parseError(r) ==
    IF r.body.json /\ r.body.error # ""
    THEN PlainError(r.body.error)
    ELSE PlainError(CASE r.status = 200 -> "unexpected status code: 200"
                      [] r.status = 201 -> "unexpected status code: 201"
                      [] r.status = 400 -> "unexpected status code: 400"
                      [] r.status = 404 -> "unexpected status code: 404"
                      [] r.status = 500 -> "unexpected status code: 500")

\* the methods of Client that call doRequest
ClientMethods == {"Register", "Get", "List", "Search", "Update", "Unregister", "Heartbeat"}

\* what a method returns to its caller: the id of the decoded Service (when
\* it returns one), the error, and whether it panicked on a nil response
Returned(id, err) == [id |-> id, err |-> err, panic |-> FALSE]
Panicked == [id |-> "", err |-> NilError, panic |-> TRUE]

\* a Register that translates every 404 response into ErrServiceNotFound
\* and stores the id of any decodable body
MethodResultLax(m, res) ==
    IF ~res.err.isNil THEN Returned("", res.err)
    ELSE IF res.resp.status = 0 THEN Panicked
    ELSE IF res.resp.status = StatusNotFound THEN Returned("", ClientError("ErrServiceNotFound"))
    ELSE IF ~res.resp.body.json THEN Returned("", PlainError("invalid character"))
    ELSE Returned(res.resp.body.id, NilError)

\* the body of Register, Get, List, Search, Update, Unregister and Heartbeat
\* after doRequest has returned res, up to the method's result
MethodResult(m, res) ==
    IF ~res.err.isNil THEN Returned("", res.err)
    ELSE IF res.resp.status = 0 THEN Panicked
    ELSE IF m \in {"Get", "Update", "Unregister", "Heartbeat"} /\ res.resp.status = StatusNotFound
         THEN Returned("", ClientError("ErrServiceNotFound"))
    ELSE IF res.resp.status # (IF m = "Register" THEN StatusCreated ELSE StatusOK)
         THEN Returned("", parseError(res.resp))
    ELSE IF m \in {"Unregister", "Heartbeat"} THEN Returned("", NilError)
    ELSE IF ~res.resp.body.json THEN Returned("", PlainError("invalid character"))
    ELSE Returned(IF m \in {"Register", "Get", "Update"} THEN res.resp.body.id ELSE "",
                  NilError)

\* the characters of the values PORT takes in the environment
PortChars ==
    [s \in {"", "4000", "0", "abc", "-1", "65535", "65536"} |->
        CASE s = "" -> <<>>
          [] s = "65535" -> <<"6", "5", "5", "3", "5">>
          [] s = "65536" -> <<"6", "5", "5", "3", "6">>
          [] s = "4000" -> <<"4", "0", "0", "0">>
          [] s = "0" -> <<"0">>
          [] s = "abc" -> <<"a", "b", "c">>
          [] s = "-1" -> <<"-", "1">>]

\* the value of a sequence of decimal digits
RECURSIVE DecimalValue(_)
DecimalValue(ds) ==
    IF ds = <<>> THEN 0
    ELSE 10 * DecimalValue(SubSeq(ds, 1, Len(ds) - 1))
         + (CHOOSE d \in 0..9 : <<"0", "1", "2", "3", "4", "5", "6", "7", "8", "9">>[d + 1] = ds[Len(ds)])

\* strconv.Atoi: an optional sign and at least one digit, or an error
Atoi(cs) ==
    LET signed == Len(cs) > 0 /\ cs[1] \in {"+", "-"}
        ds == IF signed THEN Tail(cs) ELSE cs
        ok == Len(ds) > 0 /\ \A i \in 1..Len(ds) :
                 ds[i] \in {"0", "1", "2", "3", "4", "5", "6", "7", "8", "9"}
    IN [ok |-> ok,
        val |-> IF ~ok THEN 0
                ELSE IF signed /\ cs[1] = "-" THEN 0 - DecimalValue(ds)
                ELSE DecimalValue(ds)]

\* the identity resolvers of AutoRegister. env holds what os.Getenv returns
\* for each variable ("" when unset), exe the base name of os.Executable()
\* and oshost the result of os.Hostname() ("" when the call fails)
getServiceName(override, env) ==
    IF override # "" THEN override
    ELSE IF env.SERVICE_NAME # "" THEN env.SERVICE_NAME
    ELSE IF env.exe # "" THEN env.exe
    ELSE "unknown"

getHost(override, env) ==
    IF override # "" THEN override
    ELSE IF env.POD_IP # "" THEN env.POD_IP
    ELSE IF env.HOSTNAME # "" THEN env.HOSTNAME
    ELSE IF env.oshost # "" THEN env.oshost
    ELSE "localhost"

\* a getPort that takes PORT without looking at Atoi's error
getPortUnchecked(override, env) ==
    IF override # 0 THEN override
    ELSE IF env.PORT # "" THEN Atoi(PortChars[env.PORT]).val
    ELSE 8080

getPort(override, env) ==
    IF override # 0 THEN override
    ELSE IF env.PORT # "" /\ Atoi(PortChars[env.PORT]).ok THEN Atoi(PortChars[env.PORT]).val
    ELSE 8080

getProtocol(override, env) ==
    IF override # "" THEN override
    ELSE IF env.SERVICE_PROTOCOL # "" THEN env.SERVICE_PROTOCOL
    ELSE "http"

getBasePath(override, env) ==
    IF override # "" THEN override ELSE env.SERVICE_BASE_PATH

getHealthCheck(override, env) ==
    IF override # "" THEN override
    ELSE IF env.SERVICE_HEALTH_CHECK # "" THEN env.SERVICE_HEALTH_CHECK
    ELSE "/health"

\* the RegisterRequest AutoRegister hands to Register
ResolvedRequest(opts, env) ==
    [name |-> getServiceName(opts.name, env),
     host |-> getHost(opts.host, env),
     port |-> getPort(opts.port, env),
     protocol |-> getProtocol(opts.protocol, env),
     basePath |-> getBasePath(opts.basePath, env),
     healthCheck |-> getHealthCheck(opts.healthCheck, env)]

\* registerOptions as the With... options fill it, and the environment
RegisterOptions ==
    [name : {"", "override-service"}, host : {"", "10.0.0.9"}, port : {0, 5000},
     protocol : {"", "https"}, basePath : {"", "/v2"}, healthCheck : {"", "/ready"}]
Environments ==
    [SERVICE_NAME : {"", "auto-service"}, exe : {"", "app"},
     POD_IP : {"", "10.1.1.1"}, HOSTNAME : {"", "pod-7"}, oshost : {"", "machine"},
     PORT : {"", "4000", "0", "abc", "-1"},
     SERVICE_PROTOCOL : {"", "grpc"}, SERVICE_BASE_PATH : {"", "/api"},
     SERVICE_HEALTH_CHECK : {"", "/healthz"}]

\* no AutoRegister made by this goroutine; else its options, the
\* environment it read and the request it resolved
NoAuto == [called |-> FALSE,
           opts |-> [name |-> "", host |-> "", port |-> 0, protocol |-> "",
                     basePath |-> "", healthCheck |-> ""],
           env |-> [SERVICE_NAME |-> "", exe |-> "", POD_IP |-> "", HOSTNAME |-> "",
                    oshost |-> "", PORT |-> "", SERVICE_PROTOCOL |-> "",
                    SERVICE_BASE_PATH |-> "", SERVICE_HEALTH_CHECK |-> ""],
           sent |-> [name |-> "", host |-> "", port |-> 0, protocol |-> "",
                     basePath |-> "", healthCheck |-> ""]]

\* a heartbeat loop that StartHeartbeat is about to launch; cancelled tells
\* whether the ctx it was given is done
NewLoop(cancelled) == [pc |-> "new", cancelled |-> cancelled, tick |-> FALSE, failed |-> FALSE]

\* a goroutine that is not inside a client method
IdleCall == [pc |-> "idle", method |-> "", res |-> [resp |-> NoResponse, err |-> NilError],
             out |-> Returned("", NilError)]

\* NewClient(baseURL, WithRetries(n), WithRetryDelay(d)); validURL tells
\* whether http.NewRequestWithContext accepts baseURL+path
NewClient(n, d, validURL) ==
    /\ client.pc = "none"
    /\ client' = [pc |-> "ready", retries |-> n, retryDelay |-> d,
                  validURL |-> validURL, i |-> 0, lastErr |-> NilError,
                  log |-> <<>>, answered |-> 0, resp |-> 0, err |-> NilError,
                  serviceID |-> "", mu |-> 0, registered |-> {},
                  g |-> [p \in Procs |-> IdleCall],
                  stopCh |-> 0, closed |-> <<>>, loops |-> <<>>,
                  hb |-> [p \in Procs |-> 0],
                  auto |-> [p \in Procs |-> NoAuto]]
    /\ UNCHANGED <<registry, calls, budget>>

\* a call of doRequest: `var lastErr error` and `i := 0`
DoRequest ==
    /\ client.pc \in {"ready", "returned"}
    /\ calls < budget
    /\ calls' = calls + 1
    /\ client' = [client EXCEPT !.pc = "loop", !.i = 0, !.lastErr = NilError,
                                !.log = <<>>, !.answered = 0, !.resp = 0,
                                !.err = NilError]
    /\ UNCHANGED <<registry, budget>>

\* a loop that stops one attempt early
LoopTestStrict ==
    /\ client.pc = "loop"
    /\ client' = IF client.i < client.retries
                 THEN [client EXCEPT !.pc = "build"]
                 ELSE [client EXCEPT !.pc = "returned", !.resp = 0,
                                     !.err = client.lastErr]
    /\ UNCHANGED <<registry, calls, budget>>

\* `i <= c.options.retries`, and `return nil, lastErr` after the loop
LoopTest ==
    /\ client.pc = "loop"
    /\ client' = IF client.i <= client.retries
                 THEN [client EXCEPT !.pc = "build"]
                 ELSE [client EXCEPT !.pc = "returned", !.resp = 0,
                                     !.err = client.lastErr]
    /\ UNCHANGED <<registry, calls, budget>>

\* http.NewRequestWithContext and its error return
NewRequest ==
    /\ client.pc = "build"
    /\ client' = IF client.validURL
                 THEN [client EXCEPT !.pc = "do"]
                 ELSE [client EXCEPT !.pc = "returned", !.resp = 0,
                                     !.err = PlainError("invalid request")]
    /\ UNCHANGED <<registry, calls, budget>>

\* c.httpClient.Do(req) failing with e
DoFails(e) ==
    /\ client.pc = "do"
    /\ client' = IF SleepsBeforeRetry(client.i, client.retries)
                 THEN [client EXCEPT !.pc = "sleep", !.lastErr = PlainError(e),
                                     !.log = Append(@, Attempt)]
                 ELSE [client EXCEPT !.pc = "returned", !.lastErr = PlainError(e),
                                     !.log = Append(@, Attempt), !.resp = 0,
                                     !.err = Wrapped(ErrConnectionFailed, e)]
    /\ UNCHANGED <<registry, calls, budget>>

\* a doRequest that treats a 5xx response as a failed attempt
DoAnswersRetrying(st) ==
    /\ client.pc = "do"
    /\ client' = IF st >= 500 /\ client.i < client.retries
                 THEN [client EXCEPT !.pc = "sleep", !.log = Append(@, Attempt),
                                     !.answered = @ + 1]
                 ELSE [client EXCEPT !.pc = "returned", !.log = Append(@, Attempt),
                                     !.answered = @ + 1, !.resp = st,
                                     !.err = NilError]
    /\ UNCHANGED <<registry, calls, budget>>

\* c.httpClient.Do(req) answering with a response of status st
DoAnswers(st) ==
    /\ client.pc = "do"
    /\ client' = [client EXCEPT !.pc = "returned", !.log = Append(@, Attempt),
                                !.answered = @ + 1, !.resp = st, !.err = NilError]
    /\ UNCHANGED <<registry, calls, budget>>

\* time.Sleep(c.options.retryDelay); continue
Sleep ==
    /\ client.pc = "sleep"
    /\ client' = [client EXCEPT !.pc = "loop", !.i = @ + 1,
                                !.log = Append(@, Slept(client.retryDelay))]
    /\ UNCHANGED <<registry, calls, budget>>

ClientNext ==
    \/ \E n \in RetryCounts, d \in RetryDelays, u \in BOOLEAN : NewClient(n, d, u)
    \/ DoRequest
    \/ LoopTest
    \/ NewRequest
    \/ \E e \in TransportErrors : DoFails(e)
    \/ \E st \in Responses : DoAnswers(st)
    \/ Sleep

ClientSpec == Init /\ [][ClientNext]_vars

\* the attempts and the waits of the call so far
Attempts == Cardinality({k \in 1..Len(client.log) : client.log[k].event = "Do"})
Waits == Cardinality({k \in 1..Len(client.log) : client.log[k].event = "Sleep"})

\* C20: a call that made attempts and got no response made retries+1 of
\* them, waited retryDelay after each attempt but the last one, and
\* returns no response and an error that wraps ErrConnectionFailed.
C20_RetriesThenConnectionFailed ==
    (client.pc = "returned" /\ client.resp = 0 /\ Attempts >= 1) =>
        /\ Attempts = client.retries + 1
        /\ Len(client.log) = 2 * client.retries + 1
        /\ \A k \in 1..Len(client.log) :
              IF k % 2 = 1
              THEN client.log[k].event = "Do"
              ELSE client.log[k].event = "Sleep" /\ client.log[k].delay = client.retryDelay
        /\ ~client.err.isNil /\ client.err.wraps = "ErrConnectionFailed"

\* a client with the default three retries has returned after four failed
\* attempts and three waits
C20_Witness ==
    /\ client.pc = "returned" /\ client.resp = 0
    /\ client.retries = 3 /\ client.retryDelay = 1
    /\ Attempts = 4 /\ Waits = 3
    /\ client.err.wraps = "ErrConnectionFailed"

\* the attempts of the call so far that failed at transport level
Failures == Attempts - client.answered

\* C21: a call gives up only after retries+1 failed attempts, so after k
\* failures with k <= retries it attempts again; when the attempt after k
\* failures gets a response, the call returns that response with a nil
\* error, having made exactly k+1 attempts.
C21_SuccessAfterFailures ==
    /\ []((client.pc = "returned" /\ client.resp # 0) =>
            /\ client.err.isNil
            /\ Failures <= client.retries
            /\ Attempts = Failures + 1
            /\ Waits = Failures)
    /\ [][(client.pc = "do" /\ client'.pc = "returned" /\ client'.resp = 0) =>
            Failures' = client.retries + 1]_vars
    /\ [][(client.pc = "loop" /\ client'.pc = "returned") =>
            Failures > client.retries]_vars

\* with at least two retries configured, two attempts failed and the third
\* got the response 200, which the call has returned
C21_Witness ==
    /\ client.pc = "returned" /\ client.resp = 200 /\ client.err.isNil
    /\ client.retries >= 2
    /\ Failures = 2 /\ Attempts = 3

\* C22: an attempt that receives a response, whatever its status, ends the
\* call with that response: the call makes no attempt and no wait after it,
\* and a call whose first attempt is answered has issued one request.
C22_ResponsesNotRetried ==
    /\ [](client.pc # "none" =>
            /\ client.answered <= 1
            /\ client.answered = 1 =>
                  /\ client.pc = "returned"
                  /\ client.resp \in {200, 404, 500}
                  /\ client.log[Len(client.log)].event = "Do"
                  /\ Failures = 0 => Len(client.log) = 1)
    /\ [][client.pc = "returned" => (client'.log = <<>> \/ client'.log = client.log)]_vars

\* a client with retries left has returned the 500 response its first and
\* only request received
C22_Witness ==
    /\ client.pc = "returned" /\ client.resp = 500 /\ client.answered = 1
    /\ client.retries = 3
    /\ Len(client.log) = 1

(* ---------- CallSpec: the client's methods, called concurrently ---------- *)
\* goroutine p calls method m; doRequest returns res to it. A Register that
\* decoded its Service goes on to c.mu.Lock(); every other call returns.
ClientCall(p, m, res) ==
    /\ client.pc = "ready" /\ client.g[p].pc = "idle"
    /\ res \in ResultsFor(client.retries)
    /\ calls < budget /\ calls' = calls + 1
    /\ LET out == MethodResult(m, res) IN
       client' = [client EXCEPT !.g[p] =
           [pc |-> IF m = "Register" /\ out.err.isNil /\ ~out.panic THEN "lock" ELSE "idle",
            method |-> m, res |-> res, out |-> out]]
    /\ UNCHANGED <<registry, budget>>

\* Register: c.mu.Lock()
RegisterLock(p) ==
    /\ client.pc = "ready" /\ client.g[p].pc = "lock" /\ client.mu = 0
    /\ client' = [client EXCEPT !.mu = p, !.g[p].pc = "store"]
    /\ UNCHANGED <<registry, calls, budget>>

\* Register: c.serviceID = service.ID
RegisterStore(p) ==
    /\ client.pc = "ready" /\ client.g[p].pc = "store"
    /\ client' = [client EXCEPT !.serviceID = client.g[p].out.id, !.g[p].pc = "unlock"]
    /\ UNCHANGED <<registry, calls, budget>>

\* Register: c.mu.Unlock() and return &service, nil
RegisterUnlock(p) ==
    /\ client.pc = "ready" /\ client.g[p].pc = "unlock"
    /\ client' = [client EXCEPT !.mu = 0, !.g[p].pc = "idle",
                                !.registered = @ \cup {client.g[p].out.id}]
    /\ UNCHANGED <<registry, calls, budget>>

\* GetServiceID: c.mu.Lock()
GetServiceIDLock(p) ==
    /\ client.pc = "ready" /\ client.g[p].pc = "idle" /\ client.mu = 0
    /\ calls < budget /\ calls' = calls + 1
    /\ client' = [client EXCEPT !.mu = p,
                     !.g[p] = [IdleCall EXCEPT !.pc = "read", !.method = "GetServiceID"]]
    /\ UNCHANGED <<registry, budget>>

\* GetServiceID: return c.serviceID, and the deferred c.mu.Unlock()
GetServiceIDRead(p) ==
    /\ client.pc = "ready" /\ client.g[p].pc = "read"
    /\ client' = [client EXCEPT !.mu = 0, !.g[p].pc = "idle",
                                !.g[p].out = Returned(client.serviceID, NilError)]
    /\ UNCHANGED <<registry, calls, budget>>

\* one caller at a time, every method, every result of doRequest
CallNext ==
    \/ \E n \in {-1, DefaultRetries} : NewClient(n, DefaultRetryDelay, TRUE)
    \/ \E m \in ClientMethods, res \in DoRequestResults : ClientCall(1, m, res)
    \/ RegisterLock(1)
    \/ RegisterStore(1)
    \/ RegisterUnlock(1)
    \/ GetServiceIDLock(1)
    \/ GetServiceIDRead(1)

CallSpec == Init /\ [][CallNext]_vars

\* concurrent callers of Register and GetServiceID
CacheNext ==
    \/ \E n \in {-1, DefaultRetries} : NewClient(n, DefaultRetryDelay, TRUE)
    \/ \E p \in Procs :
          \/ \E res \in DoRequestResults : ClientCall(p, "Register", res)
          \/ RegisterLock(p)
          \/ RegisterStore(p)
          \/ RegisterUnlock(p)
          \/ GetServiceIDLock(p)
          \/ GetServiceIDRead(p)

CacheSpec == Init /\ [][CacheNext]_vars

\* goroutine p has returned from method m, whose request got a response
Answered(p, m) ==
    /\ client.pc = "ready"
    /\ client.g[p].pc = "idle" /\ client.g[p].method = m
    /\ client.g[p].res.err.isNil /\ client.g[p].res.resp.status # 0

\* C23: every one of the seven client calls returns the typed NotFound error
\* for a 404 response, and for a 400 or 500 response an error that is none
\* of the typed ones and carries the server's message when there is one.
C23_StatusToError ==
    \A p \in Procs, m \in ClientMethods :
        Answered(p, m) =>
            LET r == client.g[p].res.resp
                e == client.g[p].out.err
            IN /\ r.status = 404 => (~e.isNil /\ e.wraps = "ErrServiceNotFound")
               /\ r.status \in {400, 500} =>
                     /\ ~e.isNil /\ e.wraps = ""
                     /\ (r.body.json /\ r.body.error # "") => e.text = r.body.error

\* C24: a 400 response yields ErrInvalidRequest, a 404 response yields
\* ErrServiceNotFound and a request that timed out yields ErrTimeout.
C24_ErrorTaxonomy ==
    \A p \in Procs, m \in ClientMethods :
        (client.pc = "ready" /\ client.g[p].pc = "idle" /\ client.g[p].method = m) =>
            LET res == client.g[p].res
                e == client.g[p].out.err
            IN /\ (res.err.isNil /\ res.resp.status = 400) => e.wraps = "ErrInvalidRequest"
               /\ (res.err.isNil /\ res.resp.status = 404) => e.wraps = "ErrServiceNotFound"
               /\ (~res.err.isNil /\ res.err.text = "timeout") => e.wraps = "ErrTimeout"

\* goroutine p is in a Register whose request was answered 201 with a
\* body that decodes into a Service
GoodRegister(p) ==
    /\ client.g[p].method = "Register"
    /\ client.g[p].res.err.isNil
    /\ client.g[p].res.resp.status = 201
    /\ client.g[p].res.resp.body.json

\* C25: when a successful Register returns, the cached id is the id of the
\* record it returns, and GetServiceID returns the cached id; the cached id
\* changes only to the id decoded by a Register that was answered 201, so a
\* failing Register leaves it unchanged; with concurrent Registers it is
\* always the id of one of the Registers that succeeded.
C25_CachedServiceID ==
    /\ [][\A p \in Procs :
            /\ (client.pc = "ready" /\ client.g[p].pc = "unlock" /\ client'.g[p].pc = "idle") =>
                  /\ GoodRegister(p)
                  /\ client'.serviceID = client.g[p].res.resp.body.id
                  /\ client'.g[p].out = Returned(client.g[p].res.resp.body.id, NilError)
            /\ (client.pc = "ready" /\ client.g[p].pc = "read" /\ client'.g[p].pc = "idle") =>
                  client'.g[p].out.id = client.serviceID
       ]_vars
    /\ [][(client.pc = "ready" /\ client'.serviceID # client.serviceID) =>
            \E p \in Procs :
               /\ GoodRegister(p)
               /\ client'.serviceID = client.g[p].res.resp.body.id]_vars
    /\ [](client.pc = "ready" =>
            \/ client.serviceID \in client.registered
            \/ \E p \in Procs : client.g[p].pc = "unlock" /\ client.serviceID = client.g[p].out.id
            \/ client.serviceID = "" /\ client.registered = {})

\* after two Registers returned "svc-1" and "svc-2", GetServiceID has
\* returned the cached id "svc-2"
C25_Witness ==
    /\ client.pc = "ready"
    /\ client.registered = {"svc-1", "svc-2"}
    /\ client.serviceID = "svc-2"
    /\ \E p \in Procs :
          /\ client.g[p].pc = "idle" /\ client.g[p].method = "GetServiceID"
          /\ client.g[p].out.id = "svc-2"

(* ---------- LoopSpec: StartHeartbeat, StopHeartbeat and the loops -------- *)
\* goroutine p is the first that is not inside StartHeartbeat: callers are
\* interchangeable, so the next call is made by the first free one
FirstFree(p) ==
    /\ client.hb[p] = 0
    /\ \A q \in Procs : q < p => client.hb[q] # 0

\* close(ch): the number of times each channel was closed
Close(closed, ch) == [closed EXCEPT ![ch] = @ + 1]

\* StartHeartbeat, the section under c.mu: close the previous stop channel
\* if there is one, make a new one and keep it in the local stopCh
StartHeartbeat(p, cancelled) ==
    /\ client.pc = "ready" /\ FirstFree(p)
    /\ calls < budget /\ calls' = calls + 1
    /\ LET k == Len(client.loops) + 1 IN
       client' = [client EXCEPT
           !.closed = Append(IF client.stopCh # 0 THEN Close(@, client.stopCh) ELSE @, 0),
           !.stopCh = k,
           !.loops = Append(@, NewLoop(cancelled)),
           !.hb[p] = k]
    /\ UNCHANGED <<registry, budget>>

\* StartHeartbeat: `go func() { ticker := time.NewTicker(interval) ...` and
\* the return
StartLoop(p) ==
    /\ client.pc = "ready" /\ client.hb[p] # 0
    /\ client' = [client EXCEPT !.loops[client.hb[p]].pc = "select", !.hb[p] = 0]
    /\ UNCHANGED <<registry, calls, budget>>

\* a StopHeartbeat that leaves the closed channel in c.stopCh
StopHeartbeatKeeping(p) ==
    /\ client.pc = "ready" /\ FirstFree(p)
    /\ calls < budget /\ calls' = calls + 1
    /\ client' = IF client.stopCh # 0
                 THEN [client EXCEPT !.closed = Close(@, client.stopCh)]
                 ELSE client
    /\ UNCHANGED <<registry, budget>>

\* StopHeartbeat, all of it under c.mu
StopHeartbeat(p) ==
    /\ client.pc = "ready" /\ FirstFree(p)
    /\ calls < budget /\ calls' = calls + 1
    /\ client' = IF client.stopCh # 0
                 THEN [client EXCEPT !.closed = Close(@, client.stopCh), !.stopCh = 0]
                 ELSE client
    /\ UNCHANGED <<registry, budget>>

\* the owner of the ctx given to loop k cancels it
Cancel(k) ==
    /\ client.pc = "ready" /\ ~client.loops[k].cancelled
    /\ client' = [client EXCEPT !.loops[k].cancelled = TRUE]
    /\ UNCHANGED <<registry, calls, budget>>

\* the ticker of loop k sends on ticker.C (a channel of capacity one)
TickerFires(k) ==
    /\ client.pc = "ready"
    /\ client.loops[k].pc \in {"select", "beating"} /\ ~client.loops[k].tick
    /\ client' = [client EXCEPT !.loops[k].tick = TRUE]
    /\ UNCHANGED <<registry, calls, budget>>

\* a select without the ctx.Done() case: a cancelled loop returns only
\* once its stop channel is closed as well
LoopCtxDoneUnwatched(k) ==
    /\ client.pc = "ready"
    /\ client.loops[k].pc = "select" /\ client.loops[k].cancelled
    /\ client.closed[k] > 0
    /\ client' = [client EXCEPT !.loops[k].pc = "exited"]
    /\ UNCHANGED <<registry, calls, budget>>

\* select: case <-ctx.Done(): return
LoopCtxDone(k) ==
    /\ client.pc = "ready"
    /\ client.loops[k].pc = "select" /\ client.loops[k].cancelled
    /\ client' = [client EXCEPT !.loops[k].pc = "exited"]
    /\ UNCHANGED <<registry, calls, budget>>

\* select: case <-stopCh: return
LoopStopped(k) ==
    /\ client.pc = "ready"
    /\ client.loops[k].pc = "select" /\ client.closed[k] > 0
    /\ client' = [client EXCEPT !.loops[k].pc = "exited"]
    /\ UNCHANGED <<registry, calls, budget>>

\* select: case <-ticker.C: the call of c.Heartbeat(ctx, id) begins
LoopTick(k) ==
    /\ client.pc = "ready"
    /\ client.loops[k].pc = "select" /\ client.loops[k].tick
    /\ client' = [client EXCEPT !.loops[k].pc = "beating", !.loops[k].tick = FALSE,
                                !.loops[k].failed = FALSE]
    /\ UNCHANGED <<registry, calls, budget>>

\* `_ = c.Heartbeat(ctx, id)` returns: doRequest gave it res; a panic in
\* the loop's goroutine ends the process
LoopHeartbeat(k, res) ==
    /\ client.pc = "ready" /\ client.loops[k].pc = "beating"
    /\ res \in ResultsFor(client.retries)
    /\ LET out == MethodResult("Heartbeat", res) IN
       client' = [client EXCEPT
           !.pc = IF out.panic THEN "crashed" ELSE @,
           !.loops[k].pc = IF out.panic THEN "panicked" ELSE "select",
           !.loops[k].failed = ~out.err.isNil]
    /\ UNCHANGED <<registry, calls, budget>>

LoopNext ==
    \/ \E n \in {-1, DefaultRetries} : NewClient(n, DefaultRetryDelay, TRUE)
    \/ \E p \in Procs :
          \/ \E c \in BOOLEAN : StartHeartbeat(p, c)
          \/ StartLoop(p)
          \/ StopHeartbeat(p)
    \/ \E k \in 1..MaxCalls :
          /\ client.pc = "ready" /\ k <= Len(client.loops)
          /\ \/ Cancel(k)
             \/ TickerFires(k)
             \/ LoopCtxDone(k)
             \/ LoopStopped(k)
             \/ LoopTick(k)
             \/ \E res \in {r \in DoRequestResults : r.resp.body.id = ""} :
                   LoopHeartbeat(k, res)

LoopSpec == Init /\ [][LoopNext]_vars

\* the loops StartHeartbeat has launched so far
Loops == 1..Len(client.loops)
Launched(k) == client.loops[k].pc # "new"
Active(k) == client.loops[k].pc \in {"select", "beating"}

\* C26: once a later StartHeartbeat has launched its loop and returned, an
\* earlier loop begins no Heartbeat call.
C26_OnlyNewLoopBeats ==
    [][client.pc = "ready" =>
         \A k \in Loops :
            (client.loops[k].pc = "select" /\ client'.loops[k].pc = "beating") =>
               ~\E j \in Loops : j > k /\ Launched(j)]_vars

C28_LoopSurvivesErrors ==
    [][client.pc = "ready" =>
         \A k \in Loops :
            /\ (client.loops[k].pc = "beating" /\ client'.loops[k].pc # "beating") =>
                  client'.loops[k].pc = "select"
            /\ (Active(k) /\ ~(client'.loops[k].pc \in {"select", "beating"})) =>
                  (client.closed[k] > 0 \/ client.loops[k].cancelled)]_vars

(* ---------- ResolveSpec: AutoRegister ------------------------------------ *)
\* AutoRegister(ctx, opts...) in the environment env: the request is
\* resolved and handed to Register, to which doRequest returns res
AutoRegister(p, opts, env, res) ==
    /\ client.pc = "ready" /\ client.g[p].pc = "idle"
    /\ res \in ResultsFor(client.retries)
    /\ calls < budget /\ calls' = calls + 1
    /\ LET out == MethodResult("Register", res) IN
       client' = [client EXCEPT
           !.g[p] = [pc |-> IF out.err.isNil /\ ~out.panic THEN "lock" ELSE "idle",
                     method |-> "Register", res |-> res, out |-> out],
           !.auto[p] = [called |-> TRUE, opts |-> opts, env |-> env,
                        sent |-> ResolvedRequest(opts, env)]]
    /\ UNCHANGED <<registry, budget>>

\* one AutoRegister in every environment and with every set of options
ResolveNext ==
    \/ NewClient(DefaultRetries, DefaultRetryDelay, TRUE)
    \/ /\ calls < budget
       /\ \E opts \in RegisterOptions, env \in Environments :
             \E res \in {r \in DoRequestResults :
                            r.resp.status \in {0, StatusCreated} /\ r.resp.body.id # "svc-2"} :
                AutoRegister(1, opts, env, res)
    \/ RegisterLock(1)
    \/ RegisterStore(1)
    \/ RegisterUnlock(1)

ResolveInit == NewRegistry /\ budget = 1

ResolveSpec == ResolveInit /\ [][ResolveNext]_vars

\* the integers that the values of PORT denote
PortValue ==
    [s \in {"4000", "0", "-1", "65535", "65536"} |->
        CASE s = "4000" -> 4000 [] s = "0" -> 0 [] s = "-1" -> 0 - 1
          [] s = "65535" -> 65535 [] s = "65536" -> 65536]

\* override, else environment, else default
Precedence(override, zero, fromEnv, default) ==
    IF override # zero THEN override
    ELSE IF fromEnv.set THEN fromEnv.val
    ELSE default

\* an environment variable holding v
EnvValue(v) == [set |-> v # "", val |-> v]

\* C29: the request that AutoRegister hands to Register has, for each of
\* name, host, port, protocol, basePath and healthCheck, the override when
\* it is non-empty (non-zero for port), else the value from the
\* environment when one is set (PORT only when it is an integer; POD_IP
\* before HOSTNAME), else the default: the executable's name or
\* "unknown", the machine's hostname or "localhost", 8080, "http", "" and
\* "/health".
C29_ResolverPrecedence ==
    \A p \in Procs :
        (client.pc = "ready" /\ client.auto[p].called) =>
            LET o == client.auto[p].opts
                e == client.auto[p].env
                r == client.auto[p].sent
            IN /\ r.name = Precedence(o.name, "", EnvValue(e.SERVICE_NAME),
                                      IF e.exe # "" THEN e.exe ELSE "unknown")
               /\ r.host = Precedence(o.host, "",
                                      IF e.POD_IP # "" THEN EnvValue(e.POD_IP)
                                                      ELSE EnvValue(e.HOSTNAME),
                                      IF e.oshost # "" THEN e.oshost ELSE "localhost")
               /\ r.port = Precedence(o.port, 0,
                                      [set |-> e.PORT \in DOMAIN PortValue,
                                       val |-> IF e.PORT \in DOMAIN PortValue
                                               THEN PortValue[e.PORT] ELSE 0],
                                      8080)
               /\ r.protocol = Precedence(o.protocol, "", EnvValue(e.SERVICE_PROTOCOL), "http")
               /\ r.basePath = Precedence(o.basePath, "", EnvValue(e.SERVICE_BASE_PATH), "")
               /\ r.healthCheck = Precedence(o.healthCheck, "",
                                             EnvValue(e.SERVICE_HEALTH_CHECK), "/health")

\* TestAutoRegister: with SERVICE_NAME=auto-service and PORT=4000 and no
\* override, the request carries them, and "http" and "/health" by default
C29_Witness ==
    /\ client.pc = "ready" /\ client.auto[1].called
    /\ client.auto[1].opts = NoAuto.opts
    /\ client.auto[1].env.SERVICE_NAME = "auto-service"
    /\ client.auto[1].env.PORT = "4000"
    /\ client.auto[1].env.SERVICE_PROTOCOL = ""
    /\ client.auto[1].sent.name = "auto-service"
    /\ client.auto[1].sent.port = 4000
    /\ client.auto[1].sent.protocol = "http"
    /\ client.auto[1].sent.healthCheck = "/health"
    /\ client.g[1].pc = "idle" /\ client.serviceID = "svc-1"

(* ---------- ConfigSpec: the fluent configuration builder ----------------- *)
\* what os.Getenv returns for PORT, LOG_LEVEL and GIN_MODE ("" when unset)
ConfigEnvironments ==
    [PORT : {"", "4000", "0", "abc", "-1", "65535", "65536"},
     LOG_LEVEL : {"", "debug", "info", "warn", "error", "invalid"},
     GIN_MODE : {"", "debug", "release", "test", "invalid"}]

\* everything but the builder
outsideBuilder == <<services, heap, writer, readers, spc, op, exists, ret, held, pc,
                    handler, req, mergeIdx, resp, now, nextUUID, live, issued,
                    fetched, stamp, calls, budget, client>>

\* NewBuilder(), in a process whose environment is env
NewBuilder(env) ==
    /\ builder.pc = "none"
    /\ builder' = [pc |-> "chain", env |-> env, chain |-> <<>>,
                   config |-> [Port |-> 8080, LogLevel |-> "info", GinMode |-> "release"],
                   errors |-> <<>>,
                   built |-> [ok |-> FALSE, err |-> <<>>]]
    /\ UNCHANGED outsideBuilder

\* Builder.WithEnv
WithEnv ==
    /\ builder.pc = "chain" /\ Len(builder.chain) < budget
    /\ LET e == builder.env
           p == Atoi(PortChars[e.PORT])
       IN builder' = [builder EXCEPT
              !.chain = Append(@, "WithEnv"),
              !.errors = IF e.PORT # "" /\ ~p.ok
                         THEN Append(@, "PORT must be a valid integer") ELSE @,
              !.config = [Port |-> IF e.PORT # "" /\ p.ok THEN p.val ELSE @.Port,
                          LogLevel |-> IF e.LOG_LEVEL # "" THEN e.LOG_LEVEL ELSE @.LogLevel,
                          GinMode |-> IF e.GIN_MODE # "" THEN e.GIN_MODE ELSE @.GinMode]]
    /\ UNCHANGED outsideBuilder

\* the messages Validate appends for a configuration
ValidationErrors(c) ==
    (IF c.Port <= 0 \/ c.Port > 65535
     THEN <<"PORT must be between 1 and 65535">> ELSE <<>>)
    \o (IF c.LogLevel \notin {"debug", "info", "warn", "error"}
        THEN <<"LOG_LEVEL must be one of: debug, info, warn, error">> ELSE <<>>)
    \o (IF c.GinMode \notin {"debug", "release", "test"}
        THEN <<"GIN_MODE must be one of: debug, release, test">> ELSE <<>>)

\* a Validate that stops at the first failure
ValidateFirstOnly ==
    /\ builder.pc = "chain" /\ Len(builder.chain) < budget
    /\ builder' = [builder EXCEPT
           !.chain = Append(@, "Validate"),
           !.errors = @ \o (IF ValidationErrors(builder.config) = <<>> THEN <<>>
                             ELSE <<Head(ValidationErrors(builder.config))>>)]
    /\ UNCHANGED outsideBuilder

\* Builder.Validate
Validate ==
    /\ builder.pc = "chain" /\ Len(builder.chain) < budget
    /\ builder' = [builder EXCEPT
           !.chain = Append(@, "Validate"),
           !.errors = @ \o ValidationErrors(builder.config)]
    /\ UNCHANGED outsideBuilder

\* Builder.Build: (nil, errors.Join(b.errors...)) or (b.config, nil)
Build ==
    /\ builder.pc = "chain"
    /\ builder' = [builder EXCEPT
           !.pc = "built",
           !.built = [ok |-> Len(builder.errors) = 0, err |-> builder.errors]]
    /\ UNCHANGED outsideBuilder

ConfigNext ==
    \/ \E env \in ConfigEnvironments : NewBuilder(env)
    \/ WithEnv
    \/ Validate
    \/ Build

ConfigSpec == Init /\ [][ConfigNext]_vars

\* the number of messages of the error that begin with the name of the item
Messages(item) ==
    Cardinality({k \in 1..Len(builder.built.err) :
        builder.built.err[k] \in
            CASE item = "PORT" -> {"PORT must be a valid integer",
                                   "PORT must be between 1 and 65535"}
              [] item = "LOG_LEVEL" -> {"LOG_LEVEL must be one of: debug, info, warn, error"}
              [] item = "GIN_MODE" -> {"GIN_MODE must be one of: debug, release, test"}})

\* the items of the environment that are invalid
InvalidItems(e) ==
    (IF e.PORT # "" /\ (e.PORT \notin DOMAIN PortValue
                        \/ (e.PORT \in DOMAIN PortValue /\ PortValue[e.PORT] \notin 1..65535))
     THEN {"PORT"} ELSE {})
    \cup (IF e.LOG_LEVEL \notin {"", "debug", "info", "warn", "error"} THEN {"LOG_LEVEL"} ELSE {})
    \cup (IF e.GIN_MODE \notin {"", "debug", "release", "test"} THEN {"GIN_MODE"} ELSE {})

\* C30: Build after WithEnv and Validate returns an error with exactly one
\* message for each invalid item among PORT, LOG_LEVEL and GIN_MODE and
\* none for a valid one, and returns the configuration with no error
\* exactly when the three are valid.
C30_ErrorsAggregated ==
    (builder.pc = "built" /\ builder.chain = <<"WithEnv", "Validate">>) =>
        /\ \A item \in {"PORT", "LOG_LEVEL", "GIN_MODE"} :
              Messages(item) = IF item \in InvalidItems(builder.env) THEN 1 ELSE 0
        /\ Len(builder.built.err) = Cardinality(InvalidItems(builder.env))
        /\ builder.built.ok <=> InvalidItems(builder.env) = {}

\* TestMultipleErrors: PORT=0, LOG_LEVEL=invalid, GIN_MODE=invalid give an
\* error with the three messages and no configuration
C30_Witness ==
    /\ builder.pc = "built" /\ builder.chain = <<"WithEnv", "Validate">>
    /\ builder.env = [PORT |-> "0", LOG_LEVEL |-> "invalid", GIN_MODE |-> "invalid"]
    /\ Len(builder.built.err) = 3 /\ ~builder.built.ok

(* ---------- StampSpec: registrations whose two readings of the ---------- *)
(* ---------- clock are taken one after the other ------------------------- *)
\* the fields of the literal are evaluated in order: LastHeartbeat reads
\* time.Now() (t1), then RegisteredAt reads it again (t2)
StampNext ==
    \E p \in Procs :
        \/ Lock(p)
        \/ Check(p)
        \/ Create(p)
        \/ \E t1 \in Clock : \E t2 \in t1..MaxClock : HandleRegister(p, MinimalBody, t1, t2)
        \/ RegisterDone(p)

StampSpec == Init /\ [][StampNext]_vars

\* C31: the record a successful Register stores, and the one its 201
\* response carries, has lastHeartbeat equal to registeredAt.
C31_OneNow ==
    [][\A p \in Procs :
          /\ (handler[p] = "Register" /\ Returns(p, "Create") /\ ret'[p].err = NoErr)
               => LET svc == StoreContent'[heap[op[p].ptr].id]
                  IN svc.lastHeartbeat = svc.registeredAt
          /\ (handler[p] = "Register" /\ pc[p] = "store" /\ pc'[p] = "idle"
                 /\ resp'[p].status = StatusCreated)
               => resp'[p].service.lastHeartbeat = resp'[p].service.registeredAt
      ]_vars

\* C32: a handler whose Store call (GetByID, Update or Delete) returned
\* ErrServiceNotFound answers 404, also when the record was removed by
\* another request between the handler's GetByID and its Update or Delete.
C32_NotFoundIs404 ==
    [][\A p \in Procs :
          (/\ pc[p] \in {"fetch", "store"} /\ spc[p] = "Done"
           /\ ret[p].err = ErrServiceNotFound
           /\ pc'[p] = "idle")
              => resp'[p].status = StatusNotFound
      ]_vars

\* the fields an Update request changes, and whether a record carries them
Changed(b) == {MergeFields[k] : k \in {j \in 1..Len(MergeFields) : Provided(b, j)}}
Carries(svc, b) == \A f \in Changed(b) : svc[f] = b[f]

\* p and q serve Updates of one id that change different fields, each read
\* the record before the other's change was in it, and h.repo.Update has
\* returned nil to both
BothWrote(p, q) ==
    /\ p # q
    /\ \A r \in {p, q} : /\ handler[r] = "Update" /\ pc[r] = "store" /\ spc[r] = "Done"
                         /\ ret[r].err = NoErr
    /\ req[p].id = req[q].id
    /\ Changed(req[p].body) # {} /\ Changed(req[q].body) # {}
    /\ Changed(req[p].body) \cap Changed(req[q].body) = {}
    /\ ~Carries(fetched[p], req[q].body) /\ ~Carries(fetched[q], req[p].body)

\* C33: two concurrent Updates of one id that change different fields, each
\* having read the record without the other's change, leave a stored record
\* that lacks one of the two changes.
C33_LostUpdate ==
    \A p, q \in Procs :
        BothWrote(p, q) =>
            \/ ~Carries(StoreContent[req[p].id], req[p].body)
            \/ ~Carries(StoreContent[req[p].id], req[q].body)

(* ---------- FairLoopSpec: the loops of LoopSpec under a fair ------------- *)
(* ---------- scheduler ----------------------------------------------------- *)
\* the goroutine of StartHeartbeat goes on to its `go func()`
Launches(p) == StartLoop(p)

\* a Heartbeat call of loop k returns (the http.Client has a timeout and
\* doRequest a bounded number of attempts)
BeatReturns(k) ==
    /\ client.pc = "ready" /\ k <= Len(client.loops)
    /\ \E res \in {r \in DoRequestResults : r.resp.body.id = ""} : LoopHeartbeat(k, res)

\* the select of loop k takes one of its two returning cases
Exits(k) ==
    /\ client.pc = "ready" /\ k <= Len(client.loops)
    /\ (LoopCtxDone(k) \/ LoopStopped(k))

\* a goroutine that can run does run; select chooses among its ready cases
\* by a uniform pseudo-random selection, so a case that is ready again and
\* again is chosen at last
FairLoopSpec ==
    /\ LoopSpec
    /\ \A p \in Procs : WF_vars(Launches(p))
    /\ \A k \in 1..MaxCalls : WF_vars(BeatReturns(k)) /\ SF_vars(Exits(k))

\* loop k was told to end: its stop channel is closed or its ctx is done
Signalled(k) ==
    /\ client.pc # "none" /\ k <= Len(client.loops)
    /\ (client.closed[k] > 0 \/ client.loops[k].cancelled)
\* loop k has returned, or the process has ended
Ended(k) ==
    /\ client.pc # "none" /\ k <= Len(client.loops)
    /\ (client.loops[k].pc = "exited" \/ client.pc = "crashed")

\* C34: a heartbeat loop whose stop channel was closed (by StopHeartbeat or
\* by a later StartHeartbeat) or whose ctx is cancelled, before or after
\* StartHeartbeat, eventually returns.
C34_LoopExits == \A k \in 1..MaxCalls : Signalled(k) ~> Ended(k)

\* one loop returned because its stop channel was closed while its ctx
\* was live, another because its ctx was cancelled while its channel is open
C34_Witness ==
    /\ client.pc = "ready" /\ Len(client.loops) = 2
    /\ client.loops[1].pc = "exited" /\ client.loops[2].pc = "exited"
    /\ \E j \in {1, 2} :
          /\ client.closed[j] = 1 /\ ~client.loops[j].cancelled
          /\ client.closed[3 - j] = 0 /\ client.loops[3 - j].cancelled

\* the ids whose record a Delete has removed
Unregistered == {id \in DOMAIN live : live[id] = 0}

\* C35: an id whose Unregister has removed its record is absent from the
\* store in every later state, whatever Update or Heartbeat was in flight
\* with the record fetched, or arrives later.
C35_UnregisteredStaysAbsent ==
    \A id \in Unregistered : id \notin Present

\* the h.repo.Update of an Update or Heartbeat that had fetched the record
\* before it was unregistered has returned ErrServiceNotFound
C35_Witness ==
    \E p \in Procs :
        /\ handler[p] \in {"Update", "Heartbeat"} /\ pc[p] = "store" /\ spc[p] = "Done"
        /\ ret[p].err = ErrServiceNotFound
        /\ req[p].id \in Unregistered /\ req[p].id \notin Present

(* ---------- RaceSpec: one registered id and DELETE requests for it ------- *)
(* ---------- that overlap --------------------------------------------------- *)
\* one record is registered; then each goroutine serves at most one
\* Unregister of its id, begun while the earlier ones are in progress
RaceNext ==
    \E p \in Procs :
        \/ Lock(p)
        \/ RLock(p)
        \/ Check(p)
        \/ Create(p)
        \/ Delete(p)
        \/ GetByID(p)
        \/ nextUUID = 0 /\ \E b \in FullRegisterBodies : HandleRegister(p, b, now, now)
        \/ RegisterDone(p)
        \/ \E id \in issued :
              handler[p] # "Unregister" /\ HandleByID(p, "Unregister", id, ZeroBody)
        \/ UnregisterFetched(p)
        \/ UnregisterDone(p)

RaceSpec == Init /\ [][RaceNext]_vars

\* the goroutines that serve, or have served, an Unregister
Unregistering == {p \in Procs : handler[p] = "Unregister"}

\* C36: when overlapping Unregister requests for one registered id have all
\* been answered, exactly one was answered 200 and every other one 404 or
\* 500; a Delete that returns an error removes nothing.
C36_OneUnregisterWins ==
    /\ []((Unregistering # {} /\ \A p \in Unregistering : pc[p] = "idle") =>
            /\ Cardinality({p \in Unregistering : resp[p].status = StatusOK}) = 1
            /\ \A p \in Unregistering :
                  resp[p].status \in {StatusOK, StatusNotFound, StatusInternalServerError})
    /\ [][\A p \in Procs :
            (Returns(p, "Delete") /\ ret'[p].err # NoErr) => services' = services]_vars

\* every goroutine has served an Unregister of the id, and one that had
\* fetched the record before another's Delete was answered 500
C36_Witness ==
    /\ Unregistering = Procs /\ \A p \in Procs : pc[p] = "idle"
    /\ \E p \in Procs : resp[p].status = StatusInternalServerError
    /\ \E p \in Procs : resp[p].status = StatusOK
    /\ services = <<>>

\* the stop channel of loop k was closed by StopHeartbeat: only
\* StopHeartbeat closes the channel of the latest loop
StoppedByCall(k) == k = Len(client.loops) /\ client.closed[k] > 0

\* C37: a loop whose stop channel StopHeartbeat has closed begins no
\* Heartbeat call, with a tick pending or not.
C37_NoBeatAfterStop ==
    [][client.pc = "ready" =>
         \A k \in Loops :
            StoppedByCall(k) =>
               ~(client.loops[k].pc = "select" /\ client'.loops[k].pc = "beating")]_vars

\* C38: whatever retry count the client was built with, doRequest returns a
\* response or a non-nil error.
C38_ResponseOrError ==
    client.pc = "returned" => (client.resp # 0 \/ ~client.err.isNil)

(* ---------- ValidSpec: Register, Update, Heartbeat and Unregister -------- *)
(* ---------- requests with valid and invalid bodies ----------------------- *)
\* bodies of PUT /services/:id/update with a port that is absent (0), valid,
\* too large or negative, alone or with a host
PortUpdates ==
    UpdateBodies \cup {[ZeroBody EXCEPT !.host = h, !.port = -1] : h \in {"", "127.0.0.1"}}

ValidNext ==
    \E p \in Procs :
        \/ Lock(p)
        \/ RLock(p)
        \/ Check(p)
        \/ Create(p)
        \/ Update(p)
        \/ Delete(p)
        \/ GetByID(p)
        \/ \E b \in RegisterBodies : HandleRegister(p, b, now, now)
        \/ RegisterDone(p)
        \/ \E id \in issued, b \in PortUpdates : HandleByID(p, "Update", id, b)
        \/ UpdateFetched(p)
        \/ UpdateMerge(p)
        \/ UpdateDone(p)
        \/ \E id \in issued : HandleByID(p, "Heartbeat", id, ZeroBody)
        \/ HeartbeatFetched(p, now)
        \/ HeartbeatStamp(p)
        \/ HeartbeatMark(p)
        \/ HeartbeatDone(p)
        \/ \E id \in issued : HandleByID(p, "Unregister", id, ZeroBody)
        \/ UnregisterFetched(p)
        \/ UnregisterDone(p)

ValidSpec == Init /\ [][ValidNext]_vars

\* what the record model requires of a stored record
ValidRecord(svc) ==
    /\ svc.name # "" /\ svc.host # ""
    /\ svc.port >= MinPort /\ svc.port <= MaxPort
    /\ svc.protocol # "" /\ svc.healthCheck # ""

\* Update has the result of GetByID and goes on
UpdateProceeds(p) ==
    /\ handler[p] = "Update" /\ pc[p] = "fetch" /\ spc[p] = "Done"
    /\ pc'[p] # "fetch"

\* the request is answered 400 and neither the map nor a record changes
Rejected(p) ==
    /\ pc'[p] = "idle" /\ resp'[p].status = StatusBadRequest
    /\ services' = services /\ heap' = heap

\* C39: every stored record has a non-empty name, a non-empty
\* host, a port in 1..65535, a non-empty protocol and a non-empty
\* healthCheck, and every Update request whose port is outside 1..65535 is
\* answered 400 and changes nothing.
C39_StoredRecordsValid ==
    /\ [](\A i \in DOMAIN services : ValidRecord(StoreContent[i]))
    /\ [][\A p \in Procs :
            (UpdateProceeds(p) /\ ~(req[p].body.port \in MinPort..MaxPort))
               => Rejected(p)]_vars

\* C39 for ports that were sent: every stored record is valid, and an Update request for a
\* stored id whose port is not zero and outside 1..65535 is answered 400
\* and changes nothing; a port of zero counts as not sent, and such a
\* request leaves the stored port as it is.
C39_NonZeroPortChecked ==
    /\ [](\A i \in DOMAIN services : ValidRecord(StoreContent[i]))
    /\ [][\A p \in Procs :
            /\ (UpdateProceeds(p) /\ ret[p].err = NoErr /\ req[p].body.port # 0
                  /\ ~(req[p].body.port \in MinPort..MaxPort))
                 => Rejected(p)
            /\ (StepOf(p, "Update") /\ req[p].body.port = 0 /\ req[p].id \in Present
                  /\ req[p].id \in Present')
                 => StoreContent'[req[p].id].port = StoreContent[req[p].id].port]_vars

\* an Update with host 127.0.0.1 and a port out of range was answered 400
\* and the record still has the host and port it was registered with, while
\* another Update changes the host with port 0
C39_Witness ==
    \E p, q \in Procs :
        /\ handler[p] = "Update" /\ pc[p] = "idle" /\ resp[p].status = StatusBadRequest
        /\ handler[q] = "Update" /\ pc[q] = "merge" /\ req[q].body.port = 0
        /\ req[q].body.host = "127.0.0.1"
        /\ req[q].id \in Present
        /\ StoreContent[req[q].id].host = "localhost"
        /\ StoreContent[req[q].id].port = 3000

====
